---- MODULE Spec2Model ----
(***************************************************************************)
(* Booster-pack simulator: the pack draw engine (pack_engine.py) and the   *)
(* binder progression service (binder_system.py).                          *)
(*                                                                         *)
(* Two state machines share this module.  PackSpec drives open_pack: a     *)
(* request arrives, the handler draws the pack in one step, the caller may *)
(* repeat the very same call, and the response is returned.  Spec drives   *)
(* BinderService: construction, then add_cards_to_binder requests;         *)
(* LoadSpec does so from a binder file found on disk.  SaveSpec drives     *)
(* JsonBinderRepository.save and load step by step, with crashes; the      *)
(* other machines take a save as one step.                                 *)
(*                                                                         *)
(* Optional values (Python None) are sequences of length 0 or 1.           *)
(***************************************************************************)
EXTENDS Integers, Sequences, FiniteSets, TLC

VARIABLES
    preq,       \* open_pack call in flight: <<>> or <<arguments>>
    presp,      \* outcome of the latest open_pack call: <<>> or <<result>>
    pprev,      \* outcome of the call before it, same arguments: <<>> or <<result>>
    pcalls,     \* how often the call in flight has been executed
    progression_config,   \* BinderService.progression_config
    state,      \* BinderService.state
    owned_unique_by_set,  \* BinderService.owned_unique_by_set
    repo,       \* what BinderRepository holds (the saved state)
    now,        \* the clock read by _utc_now_iso
    breq,       \* add_cards_to_binder call in flight: <<>> or <<pack_result>>
    bresp,      \* its outcome: <<>> or <<summary or error>>
    state_file, \* the binder file on disk: <<>> (missing) or <<its text>>
    temp_files, \* the *.tmp files beside it, in the order of their creation
    save_pc,    \* where JsonBinderRepository.save stands
    save_arg,   \* the state it was called with: <<>> or <<state>>
    load_result,  \* what the latest load read and returned: <<>> or <<[text, data]>>
    lock,       \* _binder_lock: 0 when free, else the request thread that holds it
    threads,    \* the request threads serving /addCardsToBinder, each with its locals
    config_file, \* config/progression.json as load_progression_config finds it
    observed    \* what a read-only query running now has read: <<>> or <<[state, owned]>>

pvars == <<preq, presp, pprev, pcalls>>
bvars == <<progression_config, state, owned_unique_by_set, repo, now, breq, bresp>>
svars == <<state_file, temp_files, save_pc, save_arg, load_result>>
cvars == <<lock, threads, config_file, observed>>
vars == <<preq, presp, pprev, pcalls, progression_config, state, owned_unique_by_set, repo, now,
          breq, bresp, state_file, temp_files, save_pc, save_arg, load_result, lock, threads,
          config_file, observed>>

None == <<>>
Some(x) == <<x>>
IsNone(o) == o = <<>>
Val(o) == o[1]

Range(s) == {s[i] : i \in 1..Len(s)}

(***************************************************************************)
(* Bounds of the model.                                                    *)
(***************************************************************************)
\* The generator has RngModulus states: random() yields k / RngModulus.
RngModulus == 16
\* Integer seeds tried: 0..MaxSeed.
MaxSeed == 2
\* How often a caller repeats one open_pack call with the same arguments.
MaxCalls == 2
\* Slots in one pack_result submitted to the binder.
MaxSlots == 2
\* The clock stops at MaxTime: the service is constructed at 0 and handles
\* one add_cards_to_binder call per clock reading after that.
MaxTime == 3
\* Pieces in which the JSON text of a payload reaches a file.
MaxChunks == 2
\* Temp files that crashed saves may leave behind before saving stops.
MaxTempFiles == 2
\* Request threads that serve /addCardsToBinder at the same time.
MaxThreads == 2

(***************************************************************************)
(* Program constants.                                                      *)
(***************************************************************************)
PACK_SIZE == 10
\* holo_upgrade_chance is modelled as k / ChanceDen; the default, 1.0 / 3.0,
\* is 1 / ChanceDen.
ChanceDen == 3
DEFAULT_RARE_SLOTS == 1
DEFAULT_UNCOMMON_SLOTS == 3
DEFAULT_COMMON_SLOTS == 6

(***************************************************************************)
(* The pools directory: one pool file per set id, four rarity buckets      *)
(* each, in file order.  "b12" sits in the rare and in the holo bucket of  *)
(* base2; "g1" belongs to base3 and to fossil.                             *)
(***************************************************************************)
Rarities == <<"common", "uncommon", "rare", "holo">>

PoolFiles == {"base2", "jungle", "fossil", "base3", "base4"}

PoolsDir ==
    [s \in PoolFiles |->
        CASE s = "base2" ->
               [common   |-> <<"b1", "b2", "b3", "b4", "b5", "b6", "b7">>,
                uncommon |-> <<"b8", "b9", "b10", "b11">>,
                rare     |-> <<"b12", "b13">>,
                holo     |-> <<"b14", "b12">>]
          [] s = "jungle" ->
               [common   |-> <<"j1", "j2", "j3", "j4", "j5", "j6">>,
                uncommon |-> <<"j7", "j8", "j9">>,
                rare     |-> <<"j10">>,
                holo     |-> <<>>]
          [] s = "fossil" ->
               [common   |-> <<"f1">>,
                uncommon |-> <<>>,
                rare     |-> <<"g1">>,
                holo     |-> <<>>]
          [] s = "base3" ->
               [common   |-> <<>>,
                uncommon |-> <<>>,
                rare     |-> <<>>,
                holo     |-> <<"g1">>]
          [] OTHER ->
               [common |-> <<>>, uncommon |-> <<>>, rare |-> <<>>, holo |-> <<>>]]

(***************************************************************************)
(* PackConfig and its coercion from a key/value input.                     *)
(***************************************************************************)
AllowedFields ==
    {"rare_slots", "uncommon_slots", "common_slots", "holo_upgrade_chance",
     "allow_duplicates_within_pack", "pity_after_packs"}

DEFAULT_CONFIG ==
    [rare_slots |-> DEFAULT_RARE_SLOTS,
     uncommon_slots |-> DEFAULT_UNCOMMON_SLOTS,
     common_slots |-> DEFAULT_COMMON_SLOTS,
     holo_upgrade_chance |-> 1,
     allow_duplicates_within_pack |-> TRUE,
     pity_after_packs |-> None]

\* PackConfig(**config): every field the dict does not give keeps its default.
PackConfigFromDict(d) ==
    [f \in AllowedFields |-> IF f \in DOMAIN d THEN d[f] ELSE DEFAULT_CONFIG[f]]

\* Mutant: unknown fields are dropped silently.
CoerceConfig_IgnoreUnknown(config) ==
    IF IsNone(config) THEN [err |-> None, cfg |-> DEFAULT_CONFIG]
    ELSE [err |-> None, cfg |-> PackConfigFromDict(Val(config))]

\* _coerce_config: <<error, config>>; config is None or a dict (the shapes
\* the HTTP layer passes).
CoerceConfig(config) ==
    IF IsNone(config) THEN [err |-> None, cfg |-> DEFAULT_CONFIG]
    ELSE IF (DOMAIN Val(config)) \ AllowedFields # {}
         THEN [err |-> Some("Unknown config fields"), cfg |-> DEFAULT_CONFIG]
         ELSE [err |-> None, cfg |-> PackConfigFromDict(Val(config))]

\* Mutant: the slot sum is only checked against too many cards.
Validate_SumAtMost(cfg) ==
    IF cfg.rare_slots < 0 \/ cfg.uncommon_slots < 0 \/ cfg.common_slots < 0
    THEN Some("Slot counts must be non-negative integers.")
    ELSE IF cfg.rare_slots + cfg.uncommon_slots + cfg.common_slots > PACK_SIZE
    THEN Some("Pack must contain exactly PACK_SIZE cards")
    ELSE IF ~(0 <= cfg.holo_upgrade_chance /\ cfg.holo_upgrade_chance <= ChanceDen)
    THEN Some("holo_upgrade_chance must be between 0.0 and 1.0.")
    ELSE IF ~IsNone(cfg.pity_after_packs) /\ Val(cfg.pity_after_packs) <= 0
    THEN Some("pity_after_packs must be positive when provided.")
    ELSE None

\* PackConfig.validate: None, or the message of the first check that fails.
Validate(cfg) ==
    IF cfg.rare_slots < 0 \/ cfg.uncommon_slots < 0 \/ cfg.common_slots < 0
    THEN Some("Slot counts must be non-negative integers.")
    ELSE IF cfg.rare_slots + cfg.uncommon_slots + cfg.common_slots # PACK_SIZE
    THEN Some("Pack must contain exactly PACK_SIZE cards")
    ELSE IF ~(0 <= cfg.holo_upgrade_chance /\ cfg.holo_upgrade_chance <= ChanceDen)
    THEN Some("holo_upgrade_chance must be between 0.0 and 1.0.")
    ELSE IF ~IsNone(cfg.pity_after_packs) /\ Val(cfg.pity_after_packs) <= 0
    THEN Some("pity_after_packs must be positive when provided.")
    ELSE None

(***************************************************************************)
(* random.Random: a deterministic generator.  The Mersenne Twister is      *)
(* abstracted to a congruential generator over RngModulus states; every    *)
(* draw advances the state once and yields state / RngModulus in [0, 1).   *)
(***************************************************************************)
RngStates == 0..(RngModulus - 1)

RngNext(s) == (5 * s + 11) % RngModulus

\* Mutant: the generator is built without the seed.
SeedStates_Unseeded(seed) == RngStates

\* random.Random(seed): an integer seed fixes the state; seed None takes
\* the state from operating-system entropy, any state at all.
SeedStates(seed) ==
    IF IsNone(seed) THEN RngStates ELSE {Val(seed) % RngModulus}

\* rng.random(): the new state, read as the roll state / RngModulus.
RngRandom(s) == [rng |-> RngNext(s), roll |-> RngNext(s)]

\* rng.choice(seq): one draw, scaled to an index of seq.
RngChoice(s, seq) ==
    [rng |-> RngNext(s), item |-> seq[((RngNext(s) * Len(seq)) \div RngModulus) + 1]]

\* Mutant: roll <= holo_upgrade_chance.
RollBelow_Inclusive(roll, chance) == roll * ChanceDen <= chance * RngModulus

\* roll < holo_upgrade_chance, for roll / RngModulus and chance / ChanceDen.
RollBelow(roll, chance) == roll * ChanceDen < chance * RngModulus

\* round(roll, 6), in millionths.
RoundRoll(roll) == (2 * 1000000 * roll + RngModulus) \div (2 * RngModulus)

(***************************************************************************)
(* _normalize_binder_state: the owned-card set of the call.  binder_state  *)
(* is None, {"owned_card_ids": list} or a card -> flag map.                *)
(***************************************************************************)
NormalizeBinderState(binder_state) ==
    IF IsNone(binder_state) THEN {}
    ELSE IF Val(binder_state).kind = "owned_card_ids"
         THEN Range(Val(binder_state).ids)
         ELSE {k \in DOMAIN Val(binder_state).flags : Val(binder_state).flags[k]}

\* _load_pool: the four buckets of the set's pool file, or the error.
LoadPool(set_id) ==
    IF set_id \notin DOMAIN PoolsDir
    THEN [err |-> Some([status |-> "FileNotFoundError", msg |-> "Pool file not found"]),
          pools |-> PoolsDir["base4"]]
    ELSE [err |-> None, pools |-> PoolsDir[set_id]]

\* Mutant: used_in_pack is not consulted.
PickFromPool_IgnoreUsed(rarity, pool, rng, used_in_pack, allow_duplicates_within_pack) ==
    IF pool = <<>>
    THEN [err |-> Some("Pool is empty."), card_id |-> "", rng |-> rng]
    ELSE [err |-> None, card_id |-> RngChoice(rng, pool).item, rng |-> RngChoice(rng, pool).rng]

\* _pick_from_pool.
PickFromPool(rarity, pool, rng, used_in_pack, allow_duplicates_within_pack) ==
    IF pool = <<>>
    THEN [err |-> Some("Pool is empty."), card_id |-> "", rng |-> rng]
    ELSE IF allow_duplicates_within_pack
    THEN [err |-> None, card_id |-> RngChoice(rng, pool).item, rng |-> RngChoice(rng, pool).rng]
    ELSE LET available == SelectSeq(pool, LAMBDA c : c \notin used_in_pack)
         IN  IF available = <<>>
             THEN [err |-> Some("No available cards left when duplicates are disallowed."),
                   card_id |-> "", rng |-> rng]
             ELSE [err |-> None, card_id |-> RngChoice(rng, available).item,
                   rng |-> RngChoice(rng, available).rng]

\* The card metadata directory: "name" of the cards that have a file.
CardNames == [c \in {"b1", "j1"} |-> IF c = "b1" THEN "Pikachu" ELSE "Eevee"]

\* _read_card_name.
ReadCardName(card_id) == IF card_id \in DOMAIN CardNames THEN CardNames[card_id] ELSE card_id

\* Mutant: the membership test is inverted.
IsNew_Inverted(card_id, owned_cards) == card_id \in owned_cards

\* is_new = card_id not in owned_cards.
IsNew(card_id, owned_cards) == card_id \notin owned_cards

\* The slot record appended by each of the three loops of open_pack.
MkSlot(slot_index, slot_type, rarity, card_id, owned_cards) ==
    [slot_index |-> slot_index,
     slot_type |-> slot_type,
     rarity |-> rarity,
     card_id |-> card_id,
     card_name |-> ReadCardName(card_id),
     is_new |-> IsNew(card_id, owned_cards),
     is_duplicate |-> ~IsNew(card_id, owned_cards)]

\* Mutant: a configured pity_after_packs forces the upgrade.
UpgradedToHolo_Pity(roll, cfg, pools) ==
    /\ RollBelow(roll, cfg.holo_upgrade_chance) \/ ~IsNone(cfg.pity_after_packs)
    /\ Len(pools.holo) > 0

\* Mutant: the holo pool is not checked for emptiness.
UpgradedToHolo_NoPoolCheck(roll, cfg, pools) == RollBelow(roll, cfg.holo_upgrade_chance)

\* upgraded_to_holo = roll < holo_upgrade_chance and len(pools["holo"]) > 0
UpgradedToHolo(roll, cfg, pools) ==
    RollBelow(roll, cfg.holo_upgrade_chance) /\ Len(pools.holo) > 0

\* The locals of open_pack while it draws: the generator, used_in_pack,
\* slots, roll_debug, slot_index, and the exception raised, if any.
DrawStart(rng) ==
    [err |-> None, rng |-> rng, used_in_pack |-> {}, slots |-> <<>>,
     roll_debug |-> <<>>, slot_index |-> 1]

\* One pass of the body of `for rare_slot_idx in range(rare_slots)`.
RareSlot(d, rare_slot_idx, cfg, pools, owned_cards) ==
    LET r == RngRandom(d.rng)
        upgraded_to_holo == UpgradedToHolo(r.roll, cfg, pools)
        rarity == IF upgraded_to_holo THEN "holo" ELSE "rare"
        pick == PickFromPool(rarity, pools[rarity], r.rng, d.used_in_pack,
                             cfg.allow_duplicates_within_pack)
    IN  IF ~IsNone(pick.err)
        THEN [d EXCEPT !.err = pick.err, !.rng = pick.rng]
        ELSE [err |-> None,
              rng |-> pick.rng,
              used_in_pack |-> d.used_in_pack \cup {pick.card_id},
              slots |-> Append(d.slots,
                               MkSlot(d.slot_index, "rare", rarity, pick.card_id, owned_cards)),
              roll_debug |-> Append(d.roll_debug,
                                    [rare_slot_index |-> rare_slot_idx + 1,
                                     roll |-> RoundRoll(r.roll),
                                     threshold |-> cfg.holo_upgrade_chance,
                                     upgraded_to_holo |-> upgraded_to_holo]),
              slot_index |-> d.slot_index + 1]

\* One pass of the body of the uncommon loop or of the common loop.
PlainSlot(d, rarity, cfg, pools, owned_cards) ==
    LET pick == PickFromPool(rarity, pools[rarity], d.rng, d.used_in_pack,
                             cfg.allow_duplicates_within_pack)
    IN  IF ~IsNone(pick.err)
        THEN [d EXCEPT !.err = pick.err, !.rng = pick.rng]
        ELSE [d EXCEPT !.rng = pick.rng,
                       !.used_in_pack = d.used_in_pack \cup {pick.card_id},
                       !.slots = Append(d.slots,
                                        MkSlot(d.slot_index, rarity, rarity, pick.card_id,
                                               owned_cards)),
                       !.slot_index = d.slot_index + 1]

\* for rare_slot_idx in range(n): passes idx, idx + 1, ..., n - 1; an
\* exception ends the call.
RECURSIVE RareLoop(_, _, _, _, _, _)
RareLoop(d, idx, n, cfg, pools, owned_cards) ==
    IF idx >= n \/ ~IsNone(d.err) THEN d
    ELSE RareLoop(RareSlot(d, idx, cfg, pools, owned_cards), idx + 1, n, cfg, pools, owned_cards)

RECURSIVE PlainLoop(_, _, _, _, _, _)
PlainLoop(d, n, rarity, cfg, pools, owned_cards) ==
    IF n <= 0 \/ ~IsNone(d.err) THEN d
    ELSE PlainLoop(PlainSlot(d, rarity, cfg, pools, owned_cards), n - 1, rarity, cfg, pools,
                   owned_cards)

\* Mutant: the common loop runs before the uncommon loop.
DrawSlots_CommonFirst(rng, cfg, pools, owned_cards) ==
    LET afterRare == RareLoop(DrawStart(rng), 0, cfg.rare_slots, cfg, pools, owned_cards)
        afterCommon == PlainLoop(afterRare, cfg.common_slots, "common", cfg, pools, owned_cards)
    IN  PlainLoop(afterCommon, cfg.uncommon_slots, "uncommon", cfg, pools, owned_cards)

\* The three loops of open_pack, in order.
DrawSlots(rng, cfg, pools, owned_cards) ==
    LET afterRare == RareLoop(DrawStart(rng), 0, cfg.rare_slots, cfg, pools, owned_cards)
        afterUncommon == PlainLoop(afterRare, cfg.uncommon_slots, "uncommon", cfg, pools,
                                   owned_cards)
    IN  PlainLoop(afterUncommon, cfg.common_slots, "common", cfg, pools, owned_cards)

\* new_cards = sum(1 for slot in slots if slot["is_new"])
NewCards(slots) == Cardinality({i \in 1..Len(slots) : slots[i].is_new})

PackError(status, msg) == [status |-> status, msg |-> msg]

\* The result dictionary of open_pack, or the exception of the pack size
\* check.
PackResult(set_id, seed, cfg, d) ==
    IF Len(d.slots) # PACK_SIZE
    THEN PackError("ValueError", "Pack size invariant violated")
    ELSE [status |-> "ok",
          set_id |-> set_id,
          seed |-> seed,
          config |-> cfg,
          debug |-> [holo_upgrade_probability |-> cfg.holo_upgrade_chance,
                     rare_slot_rolls |-> d.roll_debug],
          slots |-> d.slots,
          summary |-> [total_cards |-> Len(d.slots),
                       pack_size |-> Len(d.slots),
                       new_cards |-> NewCards(d.slots),
                       duplicate_cards |-> Len(d.slots) - NewCards(d.slots)]]

\* open_pack(set_id, config, binder_state=..., seed=...), the generator
\* starting in state rng0: the result, or the exception raised.
OpenPackFrom(rng0, set_id, config, binder_state, seed) ==
    IF set_id = "" THEN PackError("ValueError", "set_id must be a non-empty string.")
    ELSE LET coerced == CoerceConfig(config)
             cfg == coerced.cfg
             loaded == LoadPool(set_id)
         IN  IF ~IsNone(coerced.err) THEN PackError("ValueError", Val(coerced.err))
             ELSE IF ~IsNone(Validate(cfg)) THEN PackError("ValueError", Val(Validate(cfg)))
             ELSE IF ~IsNone(loaded.err) THEN Val(loaded.err)
             ELSE LET d == DrawSlots(rng0, cfg, loaded.pools,
                                     NormalizeBinderState(binder_state))
                  IN  IF ~IsNone(d.err) THEN PackError("ValueError", Val(d.err))
                      ELSE PackResult(set_id, seed, cfg, d)

(***************************************************************************)
(* The open_pack calls tried.                                              *)
(***************************************************************************)
SlotTriples == {<<1, 3, 6>>, <<2, 3, 5>>, <<0, 4, 6>>, <<-1, 5, 6>>, <<1, 3, 5>>, <<1, 3, 7>>}
ChanceValues == {-1, 0, 1, ChanceDen, ChanceDen + 1}
PityValues == {None, Some(0), Some(1), Some(2)}
ExtraFieldSets == {{}, {"foil_chance"}}

ConfigDict(t, chance, dup, pity, extra) ==
    [k \in AllowedFields \cup extra |->
        CASE k = "rare_slots" -> t[1]
          [] k = "uncommon_slots" -> t[2]
          [] k = "common_slots" -> t[3]
          [] k = "holo_upgrade_chance" -> chance
          [] k = "allow_duplicates_within_pack" -> dup
          [] k = "pity_after_packs" -> pity
          [] OTHER -> 1]

FullConfigs ==
    {Some(ConfigDict(t, chance, dup, pity, extra)) :
        t \in SlotTriples, chance \in ChanceValues, dup \in BOOLEAN,
        pity \in PityValues, extra \in ExtraFieldSets}

\* No config, the empty dict, a dict of one known field, a dict of one
\* unknown field.
PartialConfigs ==
    {None, Some(<<>>), Some([holo_upgrade_chance |-> ChanceDen]),
     Some([allow_duplicates_within_pack |-> FALSE]), Some([foil_chance |-> 1])}

PackSetIds == {"base2", "jungle", "fossil", "base3", "neo", ""}

BinderStates ==
    {None,
     Some([kind |-> "owned_card_ids", ids |-> <<"b1", "b12", "b14", "j1", "j10", "g1">>]),
     Some([kind |-> "flags", flags |-> [b2 |-> TRUE, b8 |-> FALSE, j7 |-> TRUE]])}

PackCall(set_id, config, binder_state, seed) ==
    [set_id |-> set_id, config |-> config, binder_state |-> binder_state, seed |-> seed]

\* Calls with an integer seed, and calls with seed None (fewer configs: an
\* unseeded call has one outcome per generator state).
PackCalls ==
    {PackCall(s, c, b, Some(n)) :
        s \in PackSetIds, c \in FullConfigs \cup PartialConfigs, b \in BinderStates,
        n \in 0..MaxSeed}
    \cup
    {PackCall(s, c, b, None) :
        s \in {"base2", "jungle"}, c \in PartialConfigs, b \in BinderStates}

(***************************************************************************)
(* CardCatalog: the index built once from the pool files.  A pool file's  *)
(* declared set id is taken to be its file name.                            *)
(***************************************************************************)
EmptyMap == [k \in {} |-> 0]

\* d.get(k, default) of a dict.
Get(d, k, default) == IF k \in DOMAIN d THEN d[k] ELSE default

\* d[k] = v of a dict.
Put(d, k, v) == [x \in (DOMAIN d) \cup {k} |-> IF x = k THEN v ELSE d[x]]

cards_by_set ==
    [s \in PoolFiles |->
        Range(PoolsDir[s].common) \cup Range(PoolsDir[s].uncommon)
            \cup Range(PoolsDir[s].rare) \cup Range(PoolsDir[s].holo)]

total_cards_by_set == [s \in PoolFiles |-> Cardinality(cards_by_set[s])]

\* Mutant: every set id passes for known.
IsKnownSet_Always(set_id) == TRUE

IsKnownSet(set_id) == set_id \in DOMAIN cards_by_set

IsKnownCard(card_id) == \E s \in DOMAIN cards_by_set : card_id \in cards_by_set[s]

\* Mutant: any set's card passes.
IsKnownCardInSet_AnySet(card_id, set_id) == IsKnownCard(card_id)

IsKnownCardInSet(card_id, set_id) == card_id \in Get(cards_by_set, set_id, {})

CandidateSetsForCard(card_id) == {s \in DOMAIN cards_by_set : card_id \in cards_by_set[s]}

(***************************************************************************)
(* BinderService: state, progress, events.                                 *)
(***************************************************************************)
DEFAULT_MILESTONE_THRESHOLDS == <<25, 50, 75, 100>>

\* _compose_card_key: "set_id::card_id".  No id of the catalog contains
\* "::", so the key is the pair.
ComposeCardKey(set_id, card_id) == <<set_id, card_id>>

\* The `empty` state of _validate_or_initialize_state.
EmptyState ==
    [version |-> 1, cards |-> EmptyMap, unlocked_sets |-> <<>>, set_milestones |-> EmptyMap,
     events |-> <<>>, pack_history |-> <<>>]

\* sorted(S) of a set of integers.
RECURSIVE Sorted(_)
Sorted(S) ==
    IF S = {} THEN <<>>
    ELSE LET m == CHOOSE x \in S : \A y \in S : x <= y
         IN  <<m>> \o Sorted(S \ {m})

\* round(completion, 2), in hundredths of a percent.
RoundedPercentage(owned_unique, total_available) ==
    IF total_available = 0 THEN 0
    ELSE (2 * 10000 * owned_unique + total_available) \div (2 * total_available)

\* Mutant: is_complete is remaining == 0 alone.
GetCollectionProgress_NoTotalCheck(owned, set_id) ==
    LET owned_unique == Cardinality(Get(owned, set_id, {}))
        total_available == Get(total_cards_by_set, set_id, 0)
        remaining == IF total_available - owned_unique > 0
                     THEN total_available - owned_unique ELSE 0
    IN  [set_id |-> set_id,
         owned_unique |-> owned_unique,
         total_available |-> total_available,
         completion_percentage |-> RoundedPercentage(owned_unique, total_available),
         remaining |-> remaining,
         is_complete |-> remaining = 0]

\* get_collection_progress for a set the catalog knows.
GetCollectionProgress(owned, set_id) ==
    LET owned_unique == Cardinality(Get(owned, set_id, {}))
        total_available == Get(total_cards_by_set, set_id, 0)
        remaining == IF total_available - owned_unique > 0
                     THEN total_available - owned_unique ELSE 0
    IN  [set_id |-> set_id,
         owned_unique |-> owned_unique,
         total_available |-> total_available,
         completion_percentage |-> RoundedPercentage(owned_unique, total_available),
         remaining |-> remaining,
         is_complete |-> remaining = 0 /\ total_available > 0]

\* Mutant: a set counts as complete once one of its cards is owned.
IsSetComplete_AnyOwned(owned, set_id) == Get(owned, set_id, {}) # {}

\* is_set_complete, for a set the catalog knows (it raises for any other).
IsSetComplete(owned, set_id) == GetCollectionProgress(owned, set_id).is_complete

\* _event_key: "type:set_id:next_set:threshold"; the four parts as a tuple,
\* an absent part as "" (set_id, next_set) or None (threshold).
EventKey(event_type, set_id, details) ==
    <<event_type,
      IF IsNone(set_id) THEN "" ELSE Val(set_id),
      IF "next_set_id" \in DOMAIN details THEN details.next_set_id ELSE "",
      IF "threshold" \in DOMAIN details THEN Some(details.threshold) ELSE None>>

\* _log_event: the event list with the event appended, unless an event
\* with the same key is in it.
LogEvent(events, event_type, set_id, details, timestamp) ==
    LET key == EventKey(event_type, set_id, details)
        existing_keys == {events[i].key : i \in 1..Len(events)}
    IN  IF key \in existing_keys THEN events
        ELSE Append(events,
                    [key |-> key, type |-> event_type, set_id |-> set_id,
                     timestamp |-> timestamp, details |-> details])

\* The second loop of _evaluate_progression from position idx (1-based) on:
\* the first set of the order that the catalog does not know makes
\* is_set_complete raise, which ends the call with what was unlocked so far.
RECURSIVE UnlockLoop(_, _, _, _, _)
UnlockLoop(acc, owned, order, idx, timestamp) ==
    IF idx > Len(order) THEN acc
    ELSE IF ~IsKnownSet(order[idx]) THEN [acc EXCEPT !.err = Some("Unknown set_id")]
    ELSE IF ~IsSetComplete(owned, order[idx]) THEN UnlockLoop(acc, owned, order, idx + 1, timestamp)
    ELSE IF idx >= Len(order) THEN UnlockLoop(acc, owned, order, idx + 1, timestamp)
    ELSE LET next_set == order[idx + 1]
         IN  IF next_set \in Range(acc.state.unlocked_sets)
             THEN UnlockLoop(acc, owned, order, idx + 1, timestamp)
             ELSE UnlockLoop(
                      [err |-> None,
                       state |-> [acc.state EXCEPT
                                    !.unlocked_sets = Append(@, next_set),
                                    !.events = LogEvent(@, "NEW_SET_UNLOCKED", Some(order[idx]),
                                                        [next_set_id |-> next_set], timestamp)],
                       newly_unlocked_sets |-> Append(acc.newly_unlocked_sets, next_set)],
                      owned, order, idx + 1, timestamp)

\* The first loop of _evaluate_progression: a SET_COMPLETED event for every
\* changed set of the order that is complete.
RECURSIVE CompletedLoop(_, _, _, _, _, _)
CompletedLoop(events, owned, changed_set_ids, order, idx, timestamp) ==
    IF idx > Len(order) THEN events
    ELSE CompletedLoop(
             IF order[idx] \in changed_set_ids /\ IsSetComplete(owned, order[idx])
             THEN LogEvent(events, "SET_COMPLETED", Some(order[idx]), EmptyMap, timestamp)
             ELSE events,
             owned, changed_set_ids, order, idx + 1, timestamp)

\* Mutant: every set of the order counts as changed.
EvaluateProgression_AllSets(st, owned, changed_set_ids, order, timestamp) ==
    UnlockLoop([err |-> None,
                state |-> [st EXCEPT !.events =
                              CompletedLoop(@, owned, {x \in Range(order) : IsKnownSet(x)},
                                            order, 1, timestamp)],
                newly_unlocked_sets |-> <<>>],
               owned, order, 1, timestamp)

\* _evaluate_progression: [err, state, newly_unlocked_sets].
EvaluateProgression(st, owned, changed_set_ids, order, timestamp) ==
    UnlockLoop([err |-> None,
                state |-> [st EXCEPT !.events = CompletedLoop(@, owned, changed_set_ids, order,
                                                              1, timestamp)],
                newly_unlocked_sets |-> <<>>],
               owned, order, 1, timestamp)

\* The loop of _update_partial_milestones over the thresholds from idx on:
\* [achieved, events].
RECURSIVE MilestoneLoop(_, _, _, _, _, _)
MilestoneLoop(acc, set_id, percent, thresholds, idx, timestamp) ==
    IF idx > Len(thresholds) THEN acc
    ELSE IF percent >= 100 * thresholds[idx] /\ thresholds[idx] \notin acc.achieved
    THEN MilestoneLoop(
             [achieved |-> acc.achieved \cup {thresholds[idx]},
              events |-> LogEvent(acc.events, "SET_MILESTONE_REACHED", Some(set_id),
                                  [threshold |-> thresholds[idx],
                                   completion_percentage |-> percent],
                                  timestamp)],
             set_id, percent, thresholds, idx + 1, timestamp)
    ELSE MilestoneLoop(acc, set_id, percent, thresholds, idx + 1, timestamp)

\* _update_partial_milestones.
UpdatePartialMilestones(st, owned, set_id, thresholds, timestamp) ==
    LET percent == GetCollectionProgress(owned, set_id).completion_percentage
        done == MilestoneLoop([achieved |-> Range(Get(st.set_milestones, set_id, <<>>)),
                               events |-> st.events],
                              set_id, percent, thresholds, 1, timestamp)
    IN  [st EXCEPT !.set_milestones = Put(@, set_id, Sorted(done.achieved)),
                   !.events = done.events]

(***************************************************************************)
(* add_cards_to_binder.  A slot is not a dict, or a dict whose "card_id"   *)
(* is None (missing, or no string) or a string; a string is its text       *)
(* without surrounding blanks, and whether blanks surround it.             *)
(***************************************************************************)
NotADict == [dict |-> FALSE, card_id |-> None]
SlotOf(text, padded) == [dict |-> TRUE, card_id |-> Some([text |-> text, padded |-> padded])]
SlotNoCardId == [dict |-> TRUE, card_id |-> None]

\* raw_card_id.strip()
Strip(raw) == raw.text

\* not raw_card_id: the empty string.
IsEmptyString(raw) == raw.text = "" /\ ~raw.padded

\* The CardRecord of a card obtained for the first time.
NewRecord(set_id, card_id, timestamp) ==
    [card_id |-> card_id, set_id |-> set_id, quantity_owned |-> 1,
     first_obtained_at |-> timestamp, last_obtained_at |-> timestamp,
     ever_new_discovery |-> TRUE]

\* Mutant: the update sets the quantity to 1 instead of adding 1.
IncrementedRecord_SetsOne(existing, timestamp) ==
    [existing EXCEPT !.quantity_owned = 1, !.last_obtained_at = timestamp]

\* Mutant: the update also overwrites first_obtained_at.
IncrementedRecord_ResetsFirst(existing, timestamp) ==
    [existing EXCEPT !.quantity_owned = @ + 1, !.last_obtained_at = timestamp,
                     !.first_obtained_at = timestamp]

\* The update of a record that exists.
IncrementedRecord(existing, timestamp) ==
    [existing EXCEPT !.quantity_owned = @ + 1, !.last_obtained_at = timestamp]

\* The locals and the fields that the slot loop of add_cards_to_binder
\* changes.
SlotLoopStart(st, owned) ==
    [cards |-> st.cards, owned |-> owned, inserted_new |-> 0, incremented_duplicates |-> 0,
     invalid_card_ids |-> <<>>, updated_card_ids |-> <<>>]

\* One pass of `for slot in slots`.
IngestSlot(acc, slot, pack_set_id, timestamp) ==
    IF ~slot.dict THEN acc
    ELSE IF IsNone(slot.card_id)
    THEN [acc EXCEPT !.invalid_card_ids = Append(@, "None")]
    ELSE IF IsEmptyString(Val(slot.card_id))
    THEN [acc EXCEPT !.invalid_card_ids = Append(@, "")]
    ELSE LET card_id == Strip(Val(slot.card_id))
             record_key == ComposeCardKey(pack_set_id, card_id)
         IN  IF ~IsKnownCard(card_id)
             THEN [acc EXCEPT !.invalid_card_ids = Append(@, card_id)]
             ELSE IF ~IsKnownCardInSet(card_id, pack_set_id)
             THEN [acc EXCEPT !.invalid_card_ids = Append(@, card_id)]
             ELSE IF record_key \notin DOMAIN acc.cards
             THEN [acc EXCEPT
                     !.cards = Put(@, record_key, NewRecord(pack_set_id, card_id, timestamp)),
                     !.owned = Put(@, pack_set_id, Get(@, pack_set_id, {}) \cup {card_id}),
                     !.inserted_new = @ + 1,
                     !.updated_card_ids = Append(@, card_id)]
             ELSE [acc EXCEPT
                     !.cards = Put(@, record_key, IncrementedRecord(@[record_key], timestamp)),
                     !.incremented_duplicates = @ + 1,
                     !.updated_card_ids = Append(@, card_id)]

RECURSIVE SlotLoop(_, _, _, _, _)
SlotLoop(acc, slots, idx, pack_set_id, timestamp) ==
    IF idx > Len(slots) THEN acc
    ELSE SlotLoop(IngestSlot(acc, slots[idx], pack_set_id, timestamp), slots, idx + 1,
                  pack_set_id, timestamp)

BinderError(status, msg) == [status |-> status, msg |-> msg]

\* add_cards_to_binder after its slot loop: progression, milestones, pack
\* history, _persist and the summary.  `acc` holds the cards, the index and
\* the locals as the loop left them.
FinishIngestion(st, acc, config, pack_set_id, slots, timestamp) ==
    LET prog == EvaluateProgression([st EXCEPT !.cards = acc.cards], acc.owned,
                                    {pack_set_id}, config.progression_order, timestamp)
    IN  IF ~IsNone(prog.err)
        THEN [state |-> prog.state, owned |-> acc.owned, persisted |-> FALSE,
              resp |-> BinderError("ValueError", Val(prog.err))]
        ELSE LET withMilestones ==
                     IF config.track_partial_milestones
                     THEN UpdatePartialMilestones(prog.state, acc.owned, pack_set_id,
                                                  config.milestone_thresholds, timestamp)
                     ELSE prog.state
                 final ==
                     IF config.maintain_pack_history
                     THEN [withMilestones EXCEPT !.pack_history =
                              Append(@, [timestamp |-> timestamp,
                                         set_id |-> pack_set_id,
                                         cards_added |-> acc.updated_card_ids,
                                         invalid_card_ids |-> acc.invalid_card_ids])]
                     ELSE withMilestones
             IN  [state |-> final, owned |-> acc.owned, persisted |-> TRUE,
                  resp |-> [status |-> "ok",
                            set_id |-> pack_set_id,
                            total_slots_processed |-> Len(slots),
                            cards_written |-> Len(acc.updated_card_ids),
                            new_discoveries |-> acc.inserted_new,
                            duplicate_increments |-> acc.incremented_duplicates,
                            invalid_card_ids |-> acc.invalid_card_ids,
                            set_completed |-> IsSetComplete(acc.owned, pack_set_id),
                            newly_unlocked_sets |-> prog.newly_unlocked_sets]]

\* The checks of add_cards_to_binder on set_id and slots: the exception they
\* raise, or None.
RequestError(pack_result) ==
    IF IsNone(pack_result.set_id) \/ ~IsKnownSet(Val(pack_result.set_id))
    THEN Some(BinderError("ValueError", "pack_result.set_id is missing or unknown."))
    ELSE IF IsNone(pack_result.slots)
    THEN Some(BinderError("ValueError", "pack_result.slots must be a list."))
    ELSE None

\* Mutant of AddCardsToBinder: a pack of a set that is not unlocked is turned
\* away and credits nothing.
AddCardsToBinder_LockedRejected(st, owned, config, pack_result, timestamp) ==
    IF ~IsNone(RequestError(pack_result))
    THEN [state |-> st, owned |-> owned, persisted |-> FALSE,
          resp |-> Val(RequestError(pack_result))]
    ELSE IF Val(pack_result.set_id) \notin Range(st.unlocked_sets)
    THEN [state |-> st, owned |-> owned, persisted |-> FALSE,
          resp |-> BinderError("ValueError", "set is locked.")]
    ELSE LET pack_set_id == Val(pack_result.set_id)
             slots == Val(pack_result.slots)
             acc == SlotLoop(SlotLoopStart(st, owned), slots, 1, pack_set_id, timestamp)
         IN  FinishIngestion(st, acc, config, pack_set_id, slots, timestamp)

\* add_cards_to_binder(pack_result) at clock reading `timestamp`: the
\* service's state and index afterwards, whether _persist ran, and the
\* summary returned or the exception raised.
AddCardsToBinder(st, owned, config, pack_result, timestamp) ==
    IF ~IsNone(RequestError(pack_result))
    THEN [state |-> st, owned |-> owned, persisted |-> FALSE,
          resp |-> Val(RequestError(pack_result))]
    ELSE LET pack_set_id == Val(pack_result.set_id)
             slots == Val(pack_result.slots)
             acc == SlotLoop(SlotLoopStart(st, owned), slots, 1, pack_set_id, timestamp)
         IN  FinishIngestion(st, acc, config, pack_set_id, slots, timestamp)

(***************************************************************************)
(* BinderService construction.                                             *)
(***************************************************************************)
\* The defaults of load_progression_config.
DefaultProgressionConfig ==
    [progression_order |-> <<"base2", "jungle", "fossil", "base3", "base4", "base5">>,
     track_partial_milestones |-> TRUE,
     milestone_thresholds |-> DEFAULT_MILESTONE_THRESHOLDS,
     maintain_pack_history |-> FALSE]

\* A value read from the binder file is modelled with the type the program
\* writes; a record or event of the file names in "wrong_type" the fields
\* that are missing or hold a value of another JSON type ("rec" and "item":
\* the entry itself is no object).  What the program writes has no
\* "wrong_type".
WrongType(item) == IF "wrong_type" \in DOMAIN item THEN item.wrong_type ELSE {}

\* CardRecord(...).to_dict(): the six fields of a record.
CardRecordToDict(rec) ==
    [card_id |-> rec.card_id, set_id |-> rec.set_id, quantity_owned |-> rec.quantity_owned,
     first_obtained_at |-> rec.first_obtained_at, last_obtained_at |-> rec.last_obtained_at,
     ever_new_discovery |-> rec.ever_new_discovery]

\* Mutant: the key of the entry is not compared with the record's fields.
ValidateCardRecord_NoKeyCheck(key, rec) ==
    /\ "rec" \notin WrongType(rec)
    /\ "card_id" \notin WrongType(rec) /\ rec.card_id # ""
    /\ "set_id" \notin WrongType(rec) /\ IsKnownSet(rec.set_id)
    /\ IsKnownCardInSet(rec.card_id, rec.set_id)
    /\ "quantity_owned" \notin WrongType(rec) /\ rec.quantity_owned >= 0
    /\ "first_obtained_at" \notin WrongType(rec) /\ "last_obtained_at" \notin WrongType(rec)
    /\ "ever_new_discovery" \notin WrongType(rec)

\* Mutant: the quantity is not compared with 0.
ValidateCardRecord_NoQuantityCheck(key, rec) ==
    /\ "rec" \notin WrongType(rec)
    /\ "card_id" \notin WrongType(rec) /\ rec.card_id # ""
    /\ "set_id" \notin WrongType(rec) /\ IsKnownSet(rec.set_id)
    /\ IsKnownCardInSet(rec.card_id, rec.set_id)
    /\ key = ComposeCardKey(rec.set_id, rec.card_id)
    /\ "quantity_owned" \notin WrongType(rec)
    /\ "first_obtained_at" \notin WrongType(rec) /\ "last_obtained_at" \notin WrongType(rec)
    /\ "ever_new_discovery" \notin WrongType(rec)

\* _validate_card_record: TRUE when a CardRecord is returned (the entry is
\* kept), FALSE when None is.
ValidateCardRecord(key, rec) ==
    /\ "rec" \notin WrongType(rec)
    /\ "card_id" \notin WrongType(rec) /\ rec.card_id # ""
    /\ "set_id" \notin WrongType(rec) /\ IsKnownSet(rec.set_id)
    /\ IsKnownCardInSet(rec.card_id, rec.set_id)
    /\ key = ComposeCardKey(rec.set_id, rec.card_id)
    /\ "quantity_owned" \notin WrongType(rec) /\ rec.quantity_owned >= 0
    /\ "first_obtained_at" \notin WrongType(rec) /\ "last_obtained_at" \notin WrongType(rec)
    /\ "ever_new_discovery" \notin WrongType(rec)

\* The test of an entry of "events": an object whose type and timestamp are
\* strings.
EventShapeOk(item) == WrongType(item) \cap {"item", "type", "timestamp"} = {}

\* Mutant: the milestone value 0 passes for in range.
ValidateOrInitializeState_KeepsZero(raw, config) ==
    IF IsNone(raw) THEN EmptyState
    ELSE LET r == Val(raw)
             kept == {k \in DOMAIN r.cards : ValidateCardRecord(k, r.cards[k])}
             known == {s \in DOMAIN r.set_milestones : IsKnownSet(s)}
         IN  [version |-> r.version,
              cards |-> [k \in kept |-> CardRecordToDict(r.cards[k])],
              unlocked_sets |-> SelectSeq(r.unlocked_sets, IsKnownSet),
              set_milestones |->
                  [s \in known |->
                      Sorted({v \in Range(r.set_milestones[s]) : 0 <= v /\ v <= 100})],
              events |-> SelectSeq(r.events, EventShapeOk),
              pack_history |-> IF config.maintain_pack_history THEN r.pack_history ELSE <<>>]

\* _validate_or_initialize_state, for what load returns: {} (None here) or
\* an object with the six fields of a state.
ValidateOrInitializeState(raw, config) ==
    IF IsNone(raw) THEN EmptyState
    ELSE LET r == Val(raw)
             kept == {k \in DOMAIN r.cards : ValidateCardRecord(k, r.cards[k])}
             known == {s \in DOMAIN r.set_milestones : IsKnownSet(s)}
         IN  [version |-> r.version,
              cards |-> [k \in kept |-> CardRecordToDict(r.cards[k])],
              unlocked_sets |-> SelectSeq(r.unlocked_sets, IsKnownSet),
              set_milestones |->
                  [s \in known |->
                      Sorted({v \in Range(r.set_milestones[s]) : 0 < v /\ v <= 100})],
              events |-> SelectSeq(r.events, EventShapeOk),
              pack_history |-> IF config.maintain_pack_history THEN r.pack_history ELSE <<>>]

\* _rebuild_indexes: a defaultdict, holding a set id once a record of the
\* set with quantity_owned > 0 is seen.
RebuildIndexes(cards) ==
    LET sets == {cards[k].set_id : k \in {x \in DOMAIN cards : cards[x].quantity_owned > 0}}
    IN  [s \in sets |->
            {cards[k].card_id :
                k \in {x \in DOMAIN cards :
                          cards[x].set_id = s /\ cards[x].quantity_owned > 0}}]

\* Mutant: the first set of the order is not unlocked.
EnsureInitialUnlock_Skipped(st, order, timestamp) == st

\* Mutant: the event is appended without looking for its key in the log.
EnsureInitialUnlock_LogsAgain(st, order, timestamp) ==
    IF order = <<>> THEN st
    ELSE IF order[1] \in Range(st.unlocked_sets) THEN st
    ELSE [st EXCEPT !.unlocked_sets = Append(@, order[1]),
                    !.events = @ \o LogEvent(<<>>, "INITIAL_SET_UNLOCKED", Some(order[1]),
                                             [reason |-> "first_set_in_progression"],
                                             timestamp)]

\* _ensure_initial_unlock.
EnsureInitialUnlock(st, order, timestamp) ==
    IF order = <<>> THEN st
    ELSE IF order[1] \in Range(st.unlocked_sets) THEN st
    ELSE [st EXCEPT !.unlocked_sets = Append(@, order[1]),
                    !.events = LogEvent(@, "INITIAL_SET_UNLOCKED", Some(order[1]),
                                        [reason |-> "first_set_in_progression"], timestamp)]

\* A binder file that is no JSON text, and one whose root is a list.
UnparsableFile == [syntax_error |-> TRUE]
ListFile == [not_an_object |-> TRUE]

\* JsonBinderRepository.load of what the repository holds: {} (None here)
\* for no file, for a file that json.loads rejects and for a root that is
\* no object; else the object.
LoadStored(file) ==
    IF IsNone(file) THEN None
    ELSE IF "syntax_error" \in DOMAIN Val(file) THEN None
    ELSE IF "not_an_object" \in DOMAIN Val(file) THEN None
    ELSE file

\* BinderService.__init__ on what the repository loads: the state (which
\* _persist then saves) and the index.
Construct(raw, config, timestamp) ==
    LET validated == ValidateOrInitializeState(raw, config)
    IN  [state |-> EnsureInitialUnlock(validated, config.progression_order, timestamp),
         owned |-> RebuildIndexes(validated.cards)]

(***************************************************************************)
(* Spec: the binder service and the add_cards_to_binder calls tried.       *)
(***************************************************************************)
\* config/progression.json as loaded: an order of three small sets, the
\* same without milestone tracking, and an order that names a set ("neo")
\* without a pool file.  Pack history is off, as by default.
ProgressionConfigs ==
    {[progression_order |-> <<"fossil", "base3", "jungle">>,
      track_partial_milestones |-> TRUE,
      milestone_thresholds |-> DEFAULT_MILESTONE_THRESHOLDS,
      maintain_pack_history |-> FALSE],
     [progression_order |-> <<"fossil", "base3", "jungle">>,
      track_partial_milestones |-> FALSE,
      milestone_thresholds |-> DEFAULT_MILESTONE_THRESHOLDS,
      maintain_pack_history |-> FALSE],
     [progression_order |-> <<"base3", "neo", "fossil">>,
      track_partial_milestones |-> TRUE,
      milestone_thresholds |-> DEFAULT_MILESTONE_THRESHOLDS,
      maintain_pack_history |-> FALSE]}

\* The slots tried for a pack of the set.  fossil: its two cards, one of
\* them also with blanks around it, a card of another set, an unknown card,
\* the empty string.  base3: its card, a card of another set, a blank
\* string, a slot without card_id, a slot that is no dict.
SlotChoices(set_id) ==
    CASE set_id = "fossil" ->
           {SlotOf("f1", FALSE), SlotOf("g1", FALSE), SlotOf("f1", TRUE), SlotOf("j1", FALSE),
            SlotOf("zz", FALSE), SlotOf("", FALSE)}
      [] set_id = "base3" ->
           {SlotOf("g1", FALSE), SlotOf("f1", FALSE), SlotOf("", TRUE), SlotNoCardId, NotADict}
      [] set_id = "jungle" -> {SlotOf("j1", FALSE), SlotOf("zz", FALSE)}
      [] OTHER -> {SlotOf("f1", FALSE)}

SlotLists(set_id) == UNION {[1..n -> SlotChoices(set_id)] : n \in 0..MaxSlots}

\* pack_result payloads: packs of known sets, a pack of an unknown set, a
\* pack without set_id, a pack whose slots are no list.
PackResults ==
    UNION {{[set_id |-> Some(s), slots |-> Some(l)] : l \in SlotLists(s)} :
              s \in {"fossil", "base3", "jungle"}}
    \cup {[set_id |-> Some("neo"), slots |-> Some(l)] : l \in SlotLists("neo")}
    \cup {[set_id |-> None, slots |-> Some(l)] : l \in SlotLists("neo")}
    \cup {[set_id |-> Some("fossil"), slots |-> None]}

\* No save or load of the binder file is looked at step by step.
SaveIdle ==
    /\ state_file = <<>>
    /\ temp_files = <<>>
    /\ save_pc = "idle"
    /\ save_arg = <<>>
    /\ load_result = <<>>

\* A request thread that has received no request.
IdleThread ==
    [pc |-> "idle", req |-> None, timestamp |-> 0, index |-> 0, view |-> None,
     counts |-> None, resp |-> None]

\* The request threads of the server.
Threads == 1 .. MaxThreads

\* No request thread is at work and no progression config file is being read.
ServerIdle ==
    /\ lock = 0
    /\ threads = [t \in Threads |-> IdleThread]
    /\ config_file = None
    /\ observed = None

\* No open_pack call is in flight.
PackIdle ==
    /\ preq = None
    /\ presp = None
    /\ pprev = None
    /\ pcalls = 0

\* Service start: no binder file yet, the service constructed at clock 0.
Init ==
    /\ PackIdle
    /\ SaveIdle
    /\ ServerIdle
    /\ progression_config \in ProgressionConfigs
    /\ state = Construct(None, progression_config, 0).state
    /\ owned_unique_by_set = Construct(None, progression_config, 0).owned
    /\ repo = Some(state)
    /\ now = 1
    /\ breq = None
    /\ bresp = None

\* An add_cards_to_binder request arrives.
BinderRequest ==
    /\ IsNone(breq)
    /\ now < MaxTime
    /\ \E r \in PackResults : breq' = Some(r)
    /\ bresp' = None
    /\ UNCHANGED <<progression_config, state, owned_unique_by_set, repo, now, pvars, svars, cvars>>

\* add_cards_to_binder runs, start to end, under _binder_lock.
AddCards ==
    /\ ~IsNone(breq)
    /\ IsNone(bresp)
    /\ LET out == AddCardsToBinder(state, owned_unique_by_set, progression_config, Val(breq), now)
       IN  /\ state' = out.state
           /\ owned_unique_by_set' = out.owned
           /\ repo' = IF out.persisted THEN Some(out.state) ELSE repo
           /\ bresp' = Some(out.resp)
    /\ now' = now + 1
    /\ UNCHANGED <<progression_config, breq, pvars, svars, cvars>>

\* The response is delivered.
BinderReturn ==
    /\ ~IsNone(breq)
    /\ ~IsNone(bresp)
    /\ breq' = None
    /\ bresp' = None
    /\ UNCHANGED <<progression_config, state, owned_unique_by_set, repo, now, pvars, svars, cvars>>

\* The process restarts: a new BinderService is constructed from what the
\* repository holds.
Restart ==
    /\ IsNone(breq)
    /\ LET c == Construct(LoadStored(repo), progression_config, now)
       IN  /\ state' = c.state
           /\ owned_unique_by_set' = c.owned
           /\ repo' = Some(c.state)
    /\ UNCHANGED <<progression_config, now, breq, bresp, pvars, svars, cvars>>

Next == BinderRequest \/ AddCards \/ BinderReturn \/ Restart

Spec == Init /\ [][Next]_vars

(***************************************************************************)
(* LoadSpec: the service is started on a binder file that it finds, then   *)
(* serves add_cards_to_binder calls and restarts.                          *)
(***************************************************************************)
\* A card record as an earlier run wrote it (at clock 0).
FileRecord(set_id, card_id, quantity_owned) ==
    [card_id |-> card_id, set_id |-> set_id, quantity_owned |-> quantity_owned,
     first_obtained_at |-> 0, last_obtained_at |-> 0, ever_new_discovery |-> TRUE]

\* A card record of the file with fields of the wrong JSON type.
FileRecordWrong(set_id, card_id, wrong_type) ==
    [card_id |-> card_id, set_id |-> set_id, quantity_owned |-> 1,
     first_obtained_at |-> 0, last_obtained_at |-> 0, ever_new_discovery |-> TRUE,
     wrong_type |-> wrong_type]

\* An event as an earlier run logged it (at clock 0).
FileEvent(event_type, set_id, details) ==
    LogEvent(<<>>, event_type, Some(set_id), details, 0)[1]

\* What an earlier run under the order fossil, base3, jungle saved after it
\* was given the card f1 twice.
SavedFile ==
    [version |-> 1,
     cards |-> [k \in {<<"fossil", "f1">>} |-> FileRecord("fossil", "f1", 2)],
     unlocked_sets |-> <<"fossil">>,
     set_milestones |-> [s \in {"fossil"} |-> <<25, 50>>],
     events |-> <<FileEvent("INITIAL_SET_UNLOCKED", "fossil",
                            [reason |-> "first_set_in_progression"]),
                  FileEvent("SET_MILESTONE_REACHED", "fossil",
                            [threshold |-> 25, completion_percentage |-> 5000]),
                  FileEvent("SET_MILESTONE_REACHED", "fossil",
                            [threshold |-> 50, completion_percentage |-> 5000])>>,
     pack_history |-> <<>>]

\* A file edited by hand.  Its card entries: two well-formed ones (one of
\* quantity 0) and one well-formed with a field more; then one each with a
\* negative quantity, an unknown set, a card of another set, a key of
\* another card, an empty card id, a field of the wrong type (four of
\* them), and an entry that is no object.  Its unlocked sets and milestone
\* lists name an unknown set, and it has an event without a timestamp.
EditedFile ==
    [version |-> 1,
     cards |->
        (<<"fossil", "f1">> :> FileRecord("fossil", "f1", 1))
        @@ (<<"base3", "g1">> :> FileRecord("base3", "g1", 0))
        @@ (<<"jungle", "j7">> :>
               [card_id |-> "j7", set_id |-> "jungle", quantity_owned |-> 1,
                first_obtained_at |-> 0, last_obtained_at |-> 0,
                ever_new_discovery |-> FALSE, note |-> "signed"])
        @@ (<<"fossil", "g1">> :> FileRecord("fossil", "g1", -1))
        @@ (<<"neo", "n1">> :> FileRecord("neo", "n1", 1))
        @@ (<<"fossil", "j1">> :> FileRecord("fossil", "j1", 1))
        @@ (<<"jungle", "j1">> :> FileRecord("jungle", "j2", 1))
        @@ (<<"jungle", "">> :> FileRecord("jungle", "", 1))
        @@ (<<"jungle", "j3">> :> FileRecordWrong("jungle", "j3", {"quantity_owned"}))
        @@ (<<"jungle", "j4">> :> FileRecordWrong("jungle", "j4", {"first_obtained_at"}))
        @@ (<<"jungle", "j5">> :> FileRecordWrong("jungle", "j5", {"ever_new_discovery"}))
        @@ (<<"jungle", "j6">> :> FileRecordWrong("jungle", "j6", {"set_id"}))
        @@ (<<"jungle", "j8">> :> FileRecordWrong("jungle", "j8", {"rec"})),
     unlocked_sets |-> <<"neo", "jungle">>,
     set_milestones |-> [s \in {"neo", "fossil"} |->
                            IF s = "neo" THEN <<25>> ELSE <<50, 0, 101, 25, 50>>],
     events |-> <<[FileEvent("SET_COMPLETED", "jungle", EmptyMap)
                      EXCEPT !.timestamp = 0] @@ [wrong_type |-> {"timestamp"}]>>,
     pack_history |-> <<>>]

\* A file in which the same event stands twice (two files merged by hand).
MergedFile ==
    [version |-> 1,
     cards |-> [k \in {<<"fossil", "f1">>} |-> FileRecord("fossil", "f1", 1)],
     unlocked_sets |-> <<"fossil">>,
     set_milestones |-> EmptyMap,
     events |-> <<FileEvent("INITIAL_SET_UNLOCKED", "fossil",
                            [reason |-> "first_set_in_progression"]),
                  FileEvent("INITIAL_SET_UNLOCKED", "fossil",
                            [reason |-> "first_set_in_progression"])>>,
     pack_history |-> <<>>]

\* What an earlier run under the order fossil, jungle, without milestone
\* tracking, saved after it was given the card g1 of base3: base3 is not in
\* that order, so the run logged no SET_COMPLETED event for it.
ReorderedFile ==
    [version |-> 1,
     cards |-> [k \in {<<"base3", "g1">>} |-> FileRecord("base3", "g1", 1)],
     unlocked_sets |-> <<"fossil">>,
     set_milestones |-> EmptyMap,
     events |-> <<FileEvent("INITIAL_SET_UNLOCKED", "fossil",
                            [reason |-> "first_set_in_progression"])>>,
     pack_history |-> <<>>]

\* What is on disk at the start: no file, a file that is no JSON, a JSON
\* list, or one of the files above.
PersistedFiles ==
    {None, Some(UnparsableFile), Some(ListFile), Some(SavedFile), Some(EditedFile),
     Some(MergedFile), Some(ReorderedFile)}

\* The packs ingested after a start from a file: cards of the claimed set,
\* a pack of an unknown set, and packs claimed for base4, whose pool file
\* lists no card.
LoadSlotLists(set_id) ==
    UNION {[1..n -> {SlotOf(c, FALSE) : c \in cards_by_set[set_id]}] : n \in 0..MaxSlots}

LoadPackResults ==
    UNION {{[set_id |-> Some(s), slots |-> Some(l)] : l \in LoadSlotLists(s)} :
              s \in {"fossil", "base3"}}
    \cup {[set_id |-> Some("neo"), slots |-> Some(<<>>)]}
    \cup {[set_id |-> Some("base4"), slots |-> Some(l)] : l \in {<<>>, <<SlotOf("f1", FALSE)>>}}

\* config/progression.json as loaded: the configs above, an order whose
\* first set ("neo") has no pool file, and an order whose first set (base4)
\* has a pool file without cards.
LoadProgressionConfigs ==
    ProgressionConfigs
    \cup {[progression_order |-> <<"neo", "fossil">>,
           track_partial_milestones |-> FALSE,
           milestone_thresholds |-> DEFAULT_MILESTONE_THRESHOLDS,
           maintain_pack_history |-> FALSE],
          [progression_order |-> <<"base4", "fossil">>,
           track_partial_milestones |-> TRUE,
           milestone_thresholds |-> DEFAULT_MILESTONE_THRESHOLDS,
           maintain_pack_history |-> FALSE]}

\* The binder file is on disk, the process is not started yet.
LoadInit ==
    /\ PackIdle
    /\ SaveIdle
    /\ ServerIdle
    /\ progression_config \in LoadProgressionConfigs
    /\ state = EmptyState
    /\ owned_unique_by_set = EmptyMap
    /\ repo \in PersistedFiles
    /\ now = 0
    /\ breq = None
    /\ bresp = None

\* The process starts: BinderService is constructed from the file.
Start ==
    /\ now = 0
    /\ LET c == Construct(LoadStored(repo), progression_config, now)
       IN  /\ state' = c.state
           /\ owned_unique_by_set' = c.owned
           /\ repo' = Some(c.state)
    /\ now' = now + 1
    /\ UNCHANGED <<progression_config, breq, bresp, pvars, svars, cvars>>

\* An add_cards_to_binder request arrives at the started service.
LoadRequest ==
    /\ now > 0
    /\ IsNone(breq)
    /\ now < MaxTime
    /\ \E r \in LoadPackResults : breq' = Some(r)
    /\ bresp' = None
    /\ UNCHANGED <<progression_config, state, owned_unique_by_set, repo, now, pvars, svars, cvars>>

\* The started process restarts.
LoadRestart == now > 0 /\ Restart

LoadNext == Start \/ LoadRequest \/ AddCards \/ BinderReturn \/ LoadRestart

LoadSpec == LoadInit /\ [][LoadNext]_vars

(***************************************************************************)
(* PackSpec: open_pack calls.                                              *)
(***************************************************************************)
\* No binder service is running.
BinderIdle ==
    /\ progression_config = DefaultProgressionConfig
    /\ state = EmptyState
    /\ owned_unique_by_set = EmptyMap
    /\ repo = None
    /\ now = 0
    /\ breq = None
    /\ bresp = None

PackInit == PackIdle /\ BinderIdle /\ SaveIdle /\ ServerIdle

\* A caller prepares an open_pack call.
PackRequest ==
    /\ IsNone(preq)
    /\ \E c \in PackCalls : preq' = Some(c)
    /\ presp' = None
    /\ pprev' = None
    /\ pcalls' = 0
    /\ UNCHANGED <<bvars, svars, cvars>>

\* open_pack runs, start to end; the outcome before it is kept for
\* comparison.
OpenPack ==
    /\ ~IsNone(preq)
    /\ pcalls < MaxCalls
    /\ \E rng0 \in SeedStates(Val(preq).seed) :
          presp' = Some(OpenPackFrom(rng0, Val(preq).set_id, Val(preq).config,
                                     Val(preq).binder_state, Val(preq).seed))
    /\ pprev' = presp
    /\ pcalls' = pcalls + 1
    /\ UNCHANGED <<preq, bvars, svars, cvars>>

\* The caller is done with the call.
PackReturn ==
    /\ ~IsNone(preq)
    /\ pcalls >= 1
    /\ preq' = None
    /\ presp' = None
    /\ pprev' = None
    /\ pcalls' = 0
    /\ UNCHANGED <<bvars, svars, cvars>>

PackNext == PackRequest \/ OpenPack \/ PackReturn

PackSpec == PackInit /\ [][PackNext]_vars

(***************************************************************************)
(* SaveSpec: JsonBinderRepository.save and load step by step.  The text of *)
(* a file is the state it was serialized from and how much of the payload  *)
(* is in the file: MaxChunks pieces of JSON text and the final newline.    *)
(***************************************************************************)
PayloadLen == MaxChunks + 1

\* The text in a file after `written` pieces of json.dumps(st) + "\n".
Text(st, written) == [of |-> st, written |-> written]

\* json.loads of a text: the state, or None when the JSON text is not all
\* there (an exception).
JsonLoads(text) == IF text.written >= MaxChunks THEN Some(text.of) ELSE None

\* JsonBinderRepository.load: {} (None) for a missing or unreadable file,
\* else the object read.
Load(file) == IF IsNone(file) THEN None ELSE JsonLoads(Val(file))

\* The states saved: what construction saves on no file and on SavedFile.
SavedStates ==
    {Construct(f, c, 0).state : f \in {None, Some(SavedFile)}, c \in ProgressionConfigs}

SaveInit == PackIdle /\ BinderIdle /\ SaveIdle /\ ServerIdle

\* save(state) is called: mkdir, json.dumps.
SaveBegin ==
    /\ save_pc = "idle"
    /\ Len(temp_files) < MaxTempFiles
    /\ \E st \in SavedStates : save_arg' = Some(st)
    /\ save_pc' = "create"
    /\ UNCHANGED <<state_file, temp_files, load_result, pvars, bvars, cvars>>

\* NamedTemporaryFile(delete=False, dir=..., suffix=".tmp"): a new, empty
\* file under a name no file has.
CreateTemp ==
    /\ save_pc = "create"
    /\ temp_files' = Append(temp_files, Text(Val(save_arg), 0))
    /\ save_pc' = "write"
    /\ UNCHANGED <<state_file, save_arg, load_result, pvars, bvars, cvars>>

\* Mutant: the payload is written into the binder file itself.
WriteChunk_InPlace ==
    /\ save_pc = "write"
    /\ IF IsNone(state_file) \/ Val(state_file).of # Val(save_arg)
          \/ Val(state_file).written = PayloadLen
       THEN state_file' = Some(Text(Val(save_arg), 1))
       ELSE state_file' = Some(Text(Val(save_arg), Val(state_file).written + 1))
    /\ UNCHANGED <<temp_files, save_pc, save_arg, load_result, pvars, bvars, cvars>>

\* tmp.write(payload): the buffer passes one more piece of the payload to
\* the temp file.
WriteChunk ==
    /\ save_pc = "write"
    /\ temp_files[Len(temp_files)].written < PayloadLen
    /\ temp_files' = [temp_files EXCEPT ![Len(temp_files)].written = @ + 1]
    /\ UNCHANGED <<state_file, save_pc, save_arg, load_result, pvars, bvars, cvars>>

\* The with block ends: the rest of the payload is flushed, the temp file
\* is closed.
CloseTemp ==
    /\ save_pc = "write"
    /\ temp_files' = [temp_files EXCEPT ![Len(temp_files)].written = PayloadLen]
    /\ save_pc' = "replace"
    /\ UNCHANGED <<state_file, save_arg, load_result, pvars, bvars, cvars>>

\* os.replace(temp_name, file_path): the temp file takes the place of the
\* binder file in one step; save returns.
Replace ==
    /\ save_pc = "replace"
    /\ state_file' = Some(temp_files[Len(temp_files)])
    /\ temp_files' = SubSeq(temp_files, 1, Len(temp_files) - 1)
    /\ save_pc' = "idle"
    /\ save_arg' = None
    /\ UNCHANGED <<load_result, pvars, bvars, cvars>>

\* The process dies inside save: the files stay as they are.
Crash ==
    /\ save_pc # "idle"
    /\ save_pc' = "idle"
    /\ save_arg' = None
    /\ UNCHANGED <<state_file, temp_files, load_result, pvars, bvars, cvars>>

\* A process (the next one, after a crash) loads the binder file.
LoadFile ==
    /\ save_pc = "idle"
    /\ load_result' = Some([text |-> state_file, data |-> Load(state_file)])
    /\ UNCHANGED <<state_file, temp_files, save_pc, save_arg, pvars, bvars, cvars>>

SaveNext == SaveBegin \/ CreateTemp \/ WriteChunk \/ CloseTemp \/ Replace \/ Crash \/ LoadFile

SaveSpec == SaveInit /\ [][SaveNext]_vars

(***************************************************************************)
(* Properties of open_pack (checked under PackSpec).                       *)
(***************************************************************************)
PackAnswered == ~IsNone(preq) /\ ~IsNone(presp)
PReq == Val(preq)
PResp == Val(presp)
PackOk == PackAnswered /\ PResp.status = "ok"
\* The fields of the call's config, defaults filled in.
PCfg == CoerceConfig(PReq.config).cfg
PConfigKnown == IsNone(PReq.config) \/ (DOMAIN Val(PReq.config)) \subseteq AllowedFields
PPools == PoolsDir[PReq.set_id]
PConfigGood ==
    /\ PConfigKnown
    /\ PCfg.rare_slots >= 0 /\ PCfg.uncommon_slots >= 0 /\ PCfg.common_slots >= 0
    /\ PCfg.rare_slots + PCfg.uncommon_slots + PCfg.common_slots = 10
    /\ PCfg.holo_upgrade_chance >= 0 /\ PCfg.holo_upgrade_chance <= ChanceDen
    /\ (IsNone(PCfg.pity_after_packs) \/ Val(PCfg.pity_after_packs) > 0)
SlotView(s) ==
    [card_id |-> s.card_id, rarity |-> s.rarity, slot_type |-> s.slot_type,
     slot_index |-> s.slot_index, is_new |-> s.is_new]
SlotViews(slots) == [i \in 1..Len(slots) |-> SlotView(slots[i])]

C2_PackShape ==
    PackOk =>
        /\ Len(PResp.slots) = 10
        /\ \A i \in 1..Len(PResp.slots) :
              /\ PResp.slots[i].slot_index = i
              /\ PResp.slots[i].slot_type =
                    IF i <= PCfg.rare_slots THEN "rare"
                    ELSE IF i <= PCfg.rare_slots + PCfg.uncommon_slots THEN "uncommon"
                    ELSE "common"

\* A pack with two rare slots and five common ones was returned.
C2_Witness ==
    /\ PackOk
    /\ PCfg.rare_slots = 2 /\ PCfg.common_slots = 5
    /\ PResp.slots[2].slot_type = "rare" /\ PResp.slots[10].slot_type = "common"

ValidateMessages ==
    {"Slot counts must be non-negative integers.",
     "Pack must contain exactly PACK_SIZE cards",
     "holo_upgrade_chance must be between 0.0 and 1.0.",
     "pity_after_packs must be positive when provided."}

\* C3: validate() raises a configuration error iff a slot count is
\* negative, or the slot sum is not 10, or holo_upgrade_chance is outside
\* [0,1], or pity_after_packs is present and <= 0; every config it accepts
\* (every call that gets past it) has slot sum exactly 10.
C3_ValidateContract ==
    (PackAnswered /\ PReq.set_id # "" /\ PConfigKnown) =>
        /\ (PResp.status = "ValueError" /\ PResp.msg \in ValidateMessages)
             <=> (\/ PCfg.rare_slots < 0 \/ PCfg.uncommon_slots < 0 \/ PCfg.common_slots < 0
                  \/ PCfg.rare_slots + PCfg.uncommon_slots + PCfg.common_slots # 10
                  \/ PCfg.holo_upgrade_chance < 0 \/ PCfg.holo_upgrade_chance > ChanceDen
                  \/ (~IsNone(PCfg.pity_after_packs) /\ Val(PCfg.pity_after_packs) <= 0))
        /\ ~(PResp.status = "ValueError" /\ PResp.msg \in ValidateMessages)
             => PCfg.rare_slots + PCfg.uncommon_slots + PCfg.common_slots = 10

\* validate() rejected a config whose only fault is pity_after_packs = 0.
C3_Witness ==
    /\ PackAnswered /\ PReq.set_id # "" /\ PConfigKnown
    /\ PResp.status = "ValueError"
    /\ PResp.msg = "pity_after_packs must be positive when provided."
    /\ PCfg.rare_slots + PCfg.uncommon_slots + PCfg.common_slots = 10
    /\ PCfg.pity_after_packs = Some(0)

\* C4: a key/value config with a field name outside the six known ones
\* makes the call fail with an error; no pack is drawn.
C4_UnknownFieldsRejected ==
    (PackAnswered /\ ~IsNone(PReq.config)
        /\ (DOMAIN Val(PReq.config)) \ AllowedFields # {}) =>
        /\ PResp.status = "ValueError"
        /\ PReq.set_id # "" => PResp.msg = "Unknown config fields"

\* A config that is valid but for one unknown field was rejected.
C4_Witness ==
    /\ PackAnswered /\ ~IsNone(PReq.config)
    /\ "foil_chance" \in DOMAIN Val(PReq.config)
    /\ PReq.set_id = "base2"
    /\ IsNone(Validate(PCfg))
    /\ PResp.status = "ValueError"

PKnownSet == PackAnswered /\ PReq.set_id \in DOMAIN PoolsDir
\* Every bucket the config draws from has a card.
PBucketsFilled ==
    /\ PCfg.rare_slots > 0 => PPools.rare # <<>>
    /\ PCfg.uncommon_slots > 0 => PPools.uncommon # <<>>
    /\ PCfg.common_slots > 0 => PPools.common # <<>>

\* C5: with an empty holo pool no slot of a returned pack has rarity
\* "holo", for every holo_upgrade_chance in [0,1] and every seed; each rare
\* slot is drawn from the rare pool, so the call does not fail for want of
\* a holo card.
C5_NoHoloFromEmptyPool ==
    (PKnownSet /\ PPools.holo = <<>>) =>
        /\ PResp.status = "ok" =>
              \A i \in 1..Len(PResp.slots) :
                  /\ PResp.slots[i].rarity # "holo"
                  /\ PResp.slots[i].slot_type = "rare" =>
                        /\ PResp.slots[i].rarity = "rare"
                        /\ PResp.slots[i].card_id \in Range(PPools.rare)
        /\ (PConfigGood /\ PBucketsFilled /\ PCfg.allow_duplicates_within_pack)
              => PResp.status = "ok"

\* holo_upgrade_chance = 1.0, empty holo pool: the rare slot is a rare card.
C5_Witness ==
    /\ PKnownSet /\ PPools.holo = <<>> /\ PackOk
    /\ PCfg.holo_upgrade_chance = ChanceDen
    /\ PCfg.rare_slots >= 1
    /\ PResp.slots[1].rarity = "rare"

\* The roll recorded for the n-th rare slot (millionths) is below the
\* threshold chance / ChanceDen.
RecordedRollBelow(resp, n) ==
    resp.debug.rare_slot_rolls[n].roll * ChanceDen < resp.debug.holo_upgrade_probability * 1000000

\* C6: every slot's card is a member of the pool of its resolved rarity; a
\* rare-type slot has rarity "holo" exactly when its roll is below
\* holo_upgrade_chance and the holo pool is non-empty, otherwise "rare";
\* the other slots have the rarity of their type; with chance 0.0 every
\* rare slot has rarity "rare".
C6_RarityResolution ==
    PackOk =>
        /\ Len(PResp.debug.rare_slot_rolls) = PCfg.rare_slots
        /\ \A i \in 1..Len(PResp.slots) :
              /\ PResp.slots[i].card_id \in Range(PPools[PResp.slots[i].rarity])
              /\ PResp.slots[i].slot_type = "rare" =>
                    PResp.slots[i].rarity =
                        IF RecordedRollBelow(PResp, i) /\ PPools.holo # <<>>
                        THEN "holo" ELSE "rare"
              /\ PResp.slots[i].slot_type # "rare" =>
                    PResp.slots[i].rarity = PResp.slots[i].slot_type
              /\ (PCfg.holo_upgrade_chance = 0 /\ PResp.slots[i].slot_type = "rare")
                    => PResp.slots[i].rarity = "rare"

\* Chance 0.0, non-empty holo pool, and the roll is exactly 0.0: no upgrade.
C6_Witness ==
    /\ PackOk /\ PPools.holo # <<>>
    /\ PCfg.holo_upgrade_chance = 0 /\ PCfg.rare_slots >= 1
    /\ PResp.debug.rare_slot_rolls[1].roll = 0
    /\ PResp.slots[1].rarity = "rare"

\* C7: with allow_duplicates_within_pack = false the card ids of a returned
\* pack are pairwise distinct across all rarities; when a bucket cannot
\* supply as many unused cards as its slots need, the call fails with a
\* validation error and no pack; that error is never raised when
\* duplicates are allowed.
C7_NoDuplicatesWithinPack ==
    PackAnswered =>
        /\ (PResp.status = "ok" /\ ~PCfg.allow_duplicates_within_pack) =>
              \A i, j \in 1..Len(PResp.slots) :
                  i # j => PResp.slots[i].card_id # PResp.slots[j].card_id
        /\ (/\ PKnownSet /\ PConfigGood /\ ~PCfg.allow_duplicates_within_pack
             /\ \/ Cardinality(Range(PPools.common)) < PCfg.common_slots
                \/ Cardinality(Range(PPools.uncommon)) < PCfg.uncommon_slots
                \/ Cardinality(Range(PPools.rare) \cup Range(PPools.holo)) < PCfg.rare_slots)
              => (PResp.status = "ValueError"
                  /\ PResp.msg \in {"Pool is empty.",
                                     "No available cards left when duplicates are disallowed."})
        /\ (PResp.status = "ValueError"
             /\ PResp.msg = "No available cards left when duplicates are disallowed.")
              => ~PCfg.allow_duplicates_within_pack

\* A pack without duplicates that uses up the whole jungle pool.
C7_Witness ==
    /\ PackOk /\ ~PCfg.allow_duplicates_within_pack
    /\ PReq.set_id = "jungle"
    /\ Cardinality({PResp.slots[i].card_id : i \in 1..Len(PResp.slots)}) = 10

\* The owned-card set the caller supplied.
POwned ==
    IF IsNone(PReq.binder_state) THEN {}
    ELSE IF Val(PReq.binder_state).kind = "owned_card_ids"
         THEN {Val(PReq.binder_state).ids[i] : i \in 1..Len(Val(PReq.binder_state).ids)}
         ELSE {c \in DOMAIN Val(PReq.binder_state).flags : Val(PReq.binder_state).flags[c] = TRUE}

\* C8: in a returned pack is_new holds iff the card is absent from the
\* caller's owned-card set, is_duplicate = not is_new, and
\* new_cards + duplicate_cards = total_cards = 10.
C8_NewAndDuplicateTags ==
    PackOk =>
        /\ \A i \in 1..Len(PResp.slots) :
              /\ PResp.slots[i].is_new <=> (PResp.slots[i].card_id \notin POwned)
              /\ PResp.slots[i].is_duplicate = ~PResp.slots[i].is_new
        /\ PResp.summary.new_cards = Cardinality({i \in 1..Len(PResp.slots) : PResp.slots[i].is_new})
        /\ PResp.summary.new_cards + PResp.summary.duplicate_cards = PResp.summary.total_cards
        /\ PResp.summary.total_cards = 10

\* A pack holding owned and new cards alike.
C8_Witness ==
    /\ PackOk
    /\ PResp.summary.new_cards > 0 /\ PResp.summary.duplicate_cards > 0
    /\ \E i \in 1..Len(PResp.slots) : PResp.slots[i].card_id \in POwned

(***************************************************************************)
(* Properties of add_cards_to_binder (checked under Spec).                 *)
(***************************************************************************)
\* This step is a run of add_cards_to_binder.
IngestionStep == ~IsNone(breq) /\ IsNone(bresp) /\ ~IsNone(bresp')
BReq == Val(breq)
\* The call gets past the checks of set_id and slots.
BReqAdmitted ==
    /\ ~IsNone(breq) /\ ~IsNone(BReq.set_id) /\ ~IsNone(BReq.slots)
    /\ Val(BReq.set_id) \in DOMAIN cards_by_set
BSet == Val(BReq.set_id)
BSlots == Val(BReq.slots)
\* The slot names card c of the claimed set: a non-empty string that,
\* blanks stripped, is c.
SlotNames(slot, c) ==
    /\ slot.dict /\ ~IsNone(slot.card_id)
    /\ Val(slot.card_id).text = c
    /\ c \in cards_by_set[BSet]
\* Positions of the accepted slots for card c, and of all accepted slots.
AcceptedFor(c) == {i \in 1..Len(BSlots) : SlotNames(BSlots[i], c)}
Accepted == {i \in 1..Len(BSlots) : \E c \in cards_by_set[BSet] : SlotNames(BSlots[i], c)}
\* Positions of the dict slots that are not accepted, and the id the
\* diagnostics list for each.
Rejected == {i \in 1..Len(BSlots) : BSlots[i].dict /\ i \notin Accepted}
RejectedId(i) == IF IsNone(BSlots[i].card_id) THEN "None" ELSE Val(BSlots[i].card_id).text
QuantityIn(cards, k) == IF k \in DOMAIN cards THEN cards[k].quantity_owned ELSE 0

\* C9: for the accepted slots of an ingestion: a card without a record
\* under (set id, card id) gets one with discovery flag true and first =
\* last = the call's timestamp, its quantity 1 per accepted slot; a card
\* with a record has its quantity raised by 1 per accepted slot and
\* last_obtained_at set to the call's timestamp, first_obtained_at and the
\* discovery flag unchanged.
C9_RecordCreateOrIncrement ==
    [][(IngestionStep /\ BReqAdmitted) =>
          \A c \in cards_by_set[BSet] :
              LET k == <<BSet, c>>
                  n == Cardinality(AcceptedFor(c))
              IN  n > 0 =>
                    /\ k \in DOMAIN state'.cards
                    /\ state'.cards[k].card_id = c
                    /\ state'.cards[k].set_id = BSet
                    /\ state'.cards[k].last_obtained_at = now
                    /\ IF k \in DOMAIN state.cards
                       THEN /\ state'.cards[k].quantity_owned = state.cards[k].quantity_owned + n
                            /\ state'.cards[k].first_obtained_at = state.cards[k].first_obtained_at
                            /\ state'.cards[k].ever_new_discovery = state.cards[k].ever_new_discovery
                       ELSE /\ state'.cards[k].quantity_owned = n
                            /\ state'.cards[k].first_obtained_at = now
                            /\ state'.cards[k].ever_new_discovery = TRUE]_vars

\* The same new card came in two separate packs: quantity 2, first
\* timestamp of the first pack, last timestamp of the second, flag true.
C9_Witness ==
    /\ ~IsNone(bresp) /\ Val(bresp).status = "ok"
    /\ Val(bresp).duplicate_increments = 1 /\ Val(bresp).new_discoveries = 0
    /\ <<"fossil", "f1">> \in DOMAIN state.cards
    /\ state.cards[<<"fossil", "f1">>].quantity_owned = 2
    /\ state.cards[<<"fossil", "f1">>].first_obtained_at < state.cards[<<"fossil", "f1">>].last_obtained_at
    /\ state.cards[<<"fossil", "f1">>].ever_new_discovery

\* C10: ingestion is partial-success: a slot whose card id is empty,
\* unknown to the catalog or not in the claimed set creates or changes no
\* card record, is listed in invalid_card_ids and is not counted in
\* cards_written; every valid slot of the same call is credited.
C10_PartialSuccess ==
    [][(IngestionStep /\ BReqAdmitted) =>
          /\ \A k \in (DOMAIN state.cards) \cup (DOMAIN state'.cards)
                       \cup ({BSet} \X cards_by_set[BSet]) :
                QuantityIn(state'.cards, k) =
                    QuantityIn(state.cards, k)
                        + (IF k[1] = BSet /\ k[2] \in cards_by_set[BSet]
                           THEN Cardinality(AcceptedFor(k[2])) ELSE 0)
          /\ \A k \in DOMAIN state.cards :
                (k[1] # BSet \/ AcceptedFor(k[2]) = {}) =>
                    (k \in DOMAIN state'.cards /\ state'.cards[k] = state.cards[k])
          /\ Val(bresp').status = "ok" =>
                /\ Val(bresp').cards_written = Cardinality(Accepted)
                /\ Len(Val(bresp').invalid_card_ids) = Cardinality(Rejected)
                /\ \A i \in Rejected :
                      Val(bresp').invalid_card_ids[Cardinality({j \in Rejected : j <= i})]
                          = RejectedId(i)]_vars

\* A pack of one valid and one bad slot: one card credited, one id listed.
C10_Witness ==
    /\ ~IsNone(breq) /\ ~IsNone(bresp) /\ Val(bresp).status = "ok"
    /\ Val(bresp).total_slots_processed = 2
    /\ Val(bresp).cards_written = 1
    /\ Val(bresp).invalid_card_ids = <<"zz">>
    /\ Val(bresp).new_discoveries = 1

\* C11: an add_cards_to_binder call whose set id is missing or names no
\* pool file ends with an error, and leaves the card records, unlocked
\* sets, milestones, events, the owned index and the stored state as they
\* were.
C11_UnknownSetRejected ==
    [][(IngestionStep /\ (IsNone(BReq.set_id) \/ Val(BReq.set_id) \notin PoolFiles)) =>
          /\ Val(bresp').status = "ValueError"
          /\ state' = state
          /\ owned_unique_by_set' = owned_unique_by_set
          /\ repo' = repo]_vars

\* A binder that holds a card has rejected a pack of the unknown set "neo".
C11_Witness ==
    /\ ~IsNone(breq) /\ ~IsNone(bresp)
    /\ BReq.set_id = Some("neo")
    /\ Val(bresp).status = "ValueError"
    /\ DOMAIN state.cards # {}
    /\ repo = Some(state)

(***************************************************************************)
(* Properties of the binder state (LoadSpec: from any binder file; Spec:   *)
(* from no binder file).                                                   *)
(***************************************************************************)
\* The BinderService is constructed.
Constructed == now > 0

\* C12: once the service is constructed, no two entries of the event log
\* have the same dedup key.
C12_NoDuplicateEventKeys ==
    Constructed =>
        \A i, j \in 1..Len(state.events) :
            i # j => state.events[i].key # state.events[j].key

\* The progression order, and the sets of it that are complete according to
\* the card records: every card of the catalog's set has a record with a
\* positive quantity, and the set has a card.
Order == progression_config.progression_order
CompleteIn(cards, s) ==
    /\ s \in DOMAIN cards_by_set
    /\ cards_by_set[s] # {}
    /\ \A c \in cards_by_set[s] :
          <<s, c>> \in DOMAIN cards /\ cards[<<s, c>>].quantity_owned > 0
Occurrences(seq, x) == Cardinality({i \in 1..Len(seq) : seq[i] = x})
UnlockEvents(events, s, next) ==
    {i \in 1..Len(events) :
        /\ events[i].type = "NEW_SET_UNLOCKED"
        /\ events[i].set_id = Some(s)
        /\ events[i].details.next_set_id = next}

\* C13: completing the set at position i unlocks position i+1 exactly once.
\* The call after which position i is complete while position i+1 was not
\* unlocked reports i+1 in newly_unlocked_sets (once), and no call reports a
\* set that was unlocked before it; an unlocked set stays unlocked and
\* stands once in unlocked_sets; the log holds at most one NEW_SET_UNLOCKED
\* event per transition.
C13_UnlockExactlyOnce ==
    [][/\ \A s \in Range(state.unlocked_sets) : Occurrences(state'.unlocked_sets, s) = 1
       /\ \A i \in 1..(Len(Order) - 1) :
             Cardinality(UnlockEvents(state'.events, Order[i], Order[i + 1])) <= 1
       /\ (IngestionStep /\ BReqAdmitted) =>
             \A i \in 1..(Len(Order) - 1) :
                LET next == Order[i + 1]
                    reported == IF Val(bresp').status = "ok"
                                THEN Occurrences(Val(bresp').newly_unlocked_sets, next)
                                ELSE 0
                IN  /\ reported <= 1
                    /\ reported = 1 => next \notin Range(state.unlocked_sets)
                    /\ reported = 1 => next \in Range(state'.unlocked_sets)
                    /\ (CompleteIn(state'.cards, Order[i])
                            /\ next \notin Range(state.unlocked_sets)) => reported = 1
      ]_vars

\* owned_unique == total_available > 0, by the owned index.
OwnedAll(s) ==
    /\ s \in DOMAIN cards_by_set
    /\ Cardinality(Get(owned_unique_by_set, s, {})) = Cardinality(cards_by_set[s])
    /\ Cardinality(cards_by_set[s]) > 0

\* C14: from an empty binder, every unlocked set other than the first of
\* the progression order stands at a position i+1 of the order whose
\* predecessor at position i is complete.
C14_UnlockRequiresCompletion ==
    Constructed =>
        \A s \in Range(state.unlocked_sets) :
            \/ s = Order[1]
            \/ \E i \in 1..(Len(Order) - 1) : Order[i + 1] = s /\ OwnedAll(Order[i])

\* Two completions in a row have unlocked the second and the third set.
C14_Witness ==
    /\ state.unlocked_sets = <<"fossil", "base3", "jungle">>
    /\ OwnedAll("fossil") /\ OwnedAll("base3") /\ ~OwnedAll("jungle")
    /\ repo = Some(state)

\* C15: once the service is constructed, from any binder file, every card
\* record stands under the key composed of its set id and card id, its set
\* has a pool file, its card is a card of that set, and its quantity is a
\* non-negative integer.
C15_CardRecordsValid ==
    Constructed =>
        \A k \in DOMAIN state.cards :
            LET rec == state.cards[k]
            IN  /\ k = <<rec.set_id, rec.card_id>>
                /\ rec.set_id \in PoolFiles
                /\ rec.card_id \in Range(PoolsDir[rec.set_id].common)
                                      \cup Range(PoolsDir[rec.set_id].uncommon)
                                      \cup Range(PoolsDir[rec.set_id].rare)
                                      \cup Range(PoolsDir[rec.set_id].holo)
                /\ rec.quantity_owned \in Nat

\* Started on the edited file, the binder holds its three well-formed
\* records and the card of a later ingestion.
C15_Witness ==
    /\ Constructed
    /\ ~IsNone(bresp) /\ Val(bresp).status = "ok" /\ Val(bresp).new_discoveries = 1
    /\ DOMAIN state.cards =
           {<<"fossil", "f1">>, <<"base3", "g1">>, <<"jungle", "j7">>, <<"fossil", "g1">>}
    /\ state.cards[<<"base3", "g1">>].quantity_owned = 0

\* C16: once the service is constructed, every entry of unlocked_sets is a
\* set that has a pool file, whatever sets the progression order names.
C16_UnlockedSetsKnown ==
    Constructed => \A s \in Range(state.unlocked_sets) : s \in PoolFiles

\* The INITIAL_SET_UNLOCKED events of the log for the first set of the
\* order.
InitialUnlockEvents(events) ==
    {i \in 1..Len(events) :
        events[i].type = "INITIAL_SET_UNLOCKED" /\ events[i].set_id = Some(Order[1])}
InitialUnlocksIn(file) ==
    IF IsNone(LoadStored(file)) THEN 0
    ELSE Cardinality(InitialUnlockEvents(Val(file).events))
Largest(S) == CHOOSE x \in S : \A y \in S : y <= x

\* C17: from the end of construction on, whatever the binder file held, the
\* first set of the progression order is unlocked; and no construction or
\* call logs the INITIAL_SET_UNLOCKED event of that set when the log it
\* works on (the file's, the state's) holds one already.
C17_FirstSetUnlocked ==
    /\ [](Constructed => Order[1] \in Range(state.unlocked_sets))
    /\ [][Cardinality(InitialUnlockEvents(state'.events)) <=
              Largest({1, Cardinality(InitialUnlockEvents(state.events)),
                       InitialUnlocksIn(repo)})]_vars

\* The first set of the order has no pool file: every load drops it from
\* unlocked_sets and every construction unlocks it again; the log holds
\* its event once.
C17_Witness ==
    /\ Constructed
    /\ Order[1] = "neo"
    /\ state.unlocked_sets = <<"jungle", "neo">>
    /\ Cardinality(InitialUnlockEvents(state.events)) = 1
    /\ repo = Some(state)

\* This step constructs the BinderService on a binder file that exists.
ConstructionStep == IsNone(breq) /\ IsNone(breq') /\ ~IsNone(LoadStored(repo))
CardRecordFields ==
    {"card_id", "set_id", "quantity_owned", "first_obtained_at", "last_obtained_at",
     "ever_new_discovery"}
\* The checks a card entry of the file must pass, as the claim lists them.
PassesLoadChecks(k, rec) ==
    /\ WrongType(rec) = {}
    /\ k = <<rec.set_id, rec.card_id>>
    /\ rec.set_id \in PoolFiles
    /\ rec.card_id \in Range(PoolsDir[rec.set_id].common)
                          \cup Range(PoolsDir[rec.set_id].uncommon)
                          \cup Range(PoolsDir[rec.set_id].rare)
                          \cup Range(PoolsDir[rec.set_id].holo)
    /\ rec.quantity_owned \in Nat

\* C18: a construction keeps a card entry of the file exactly when its key
\* is the composite of its set and card fields, the set is known, the card
\* is a card of the set, the quantity is a non-negative integer and the
\* timestamps and the flag have the right type; the kept records have the
\* field values of the file; the construction completes, and the state it
\* saves holds the kept records only.
C18_LoadDropsBadRecords ==
    [][ConstructionStep =>
          LET file == Val(repo).cards
          IN  /\ Constructed'
              /\ DOMAIN state'.cards = {k \in DOMAIN file : PassesLoadChecks(k, file[k])}
              /\ \A k \in DOMAIN state'.cards :
                    /\ DOMAIN state'.cards[k] = CardRecordFields
                    /\ \A f \in CardRecordFields : state'.cards[k][f] = file[k][f]
              /\ repo' = Some(state')]_vars

\* Started on the edited file: its three well-formed records are in the
\* state and in the saved file, the ten others in neither.
C18_Witness ==
    /\ now = 1 /\ IsNone(breq)
    /\ DOMAIN state.cards = {<<"fossil", "f1">>, <<"base3", "g1">>, <<"jungle", "j7">>}
    /\ state.cards[<<"base3", "g1">>].quantity_owned = 0
    /\ ~state.cards[<<"jungle", "j7">>].ever_new_discovery
    /\ repo = Some(state)

\* C19: whenever no BinderService operation is running (after construction
\* and after every add_cards_to_binder call, returned or raised), the state
\* that the repository holds equals the state in memory.
C19_PersistedAfterEveryMutation ==
    Constructed => repo = Some(state)

(***************************************************************************)
(* Properties of JsonBinderRepository.save (checked under SaveSpec).       *)
(***************************************************************************)
\* C20: save is crash-atomic.  Whatever step of save a crash follows, the
\* binder file is missing (never saved) or holds a whole payload; a step
\* leaves the binder file as it was or puts the whole payload of the state
\* being saved in its place; and a load reads a whole payload and returns
\* the state it was serialized from, or finds no file.
C20_SaveCrashAtomic ==
    /\ [](IsNone(state_file) \/ Val(state_file).written = PayloadLen)
    /\ [][\/ state_file' = state_file
          \/ /\ ~IsNone(save_arg)
             /\ state_file' = Some(Text(Val(save_arg), PayloadLen))]_vars
    /\ [](~IsNone(load_result) =>
             LET r == Val(load_result)
             IN  IF IsNone(r.text) THEN IsNone(r.data)
                 ELSE /\ Val(r.text).written = PayloadLen
                      /\ Val(r.text).of \in SavedStates
                      /\ r.data = Some(Val(r.text).of))

\* A save of another state crashed while it wrote: its half-written temp
\* file lies beside the binder file, and the load after the crash has
\* returned the state saved before.
C20_Witness ==
    /\ save_pc = "idle"
    /\ ~IsNone(state_file)
    /\ temp_files # <<>>
    /\ temp_files[Len(temp_files)].written \in 1..(PayloadLen - 1)
    /\ temp_files[Len(temp_files)].of # Val(state_file).of
    /\ ~IsNone(load_result)
    /\ Val(load_result).text = state_file
    /\ Val(load_result).data = Some(Val(state_file).of)

(***************************************************************************)
(* Properties of loading (LoadSpec).                                       *)
(***************************************************************************)
\* The storage is bad: no binder file, a file that is no JSON text, or a
\* JSON text whose root is no object.
BadStorage ==
    \/ IsNone(repo)
    \/ "syntax_error" \in DOMAIN Val(repo)
    \/ "not_an_object" \in DOMAIN Val(repo)

\* C21: a start on bad storage completes the construction with no card
\* record, the first set of the progression order as the only unlocked
\* set, no milestone, and this state saved.
C21_BadStorageGivesEmptyState ==
    [][(now = 0 /\ now' = 1 /\ BadStorage) =>
          /\ Constructed'
          /\ DOMAIN state'.cards = {}
          /\ state'.unlocked_sets = <<Order[1]>>
          /\ DOMAIN state'.set_milestones = {}
          /\ owned_unique_by_set' = EmptyMap
          /\ repo' = Some(state')]_vars

\* The service stands constructed on an empty state that is saved (as
\* after a start on a file that could not be read).
C21_Witness ==
    /\ now = 1 /\ IsNone(breq)
    /\ DOMAIN state.cards = {}
    /\ state.unlocked_sets = <<Order[1]>>
    /\ Len(state.events) = 1
    /\ repo = Some(state)

(***************************************************************************)
(* ConcSpec: request threads of the API server call add_cards_to_binder    *)
(* on the one BinderService of the process.  A thread is between two       *)
(* statements of the call wherever another thread could run.               *)
(***************************************************************************)
\* The pack_result payloads the threads submit.
ConcPackResults ==
    {[set_id |-> Some("fossil"), slots |-> Some(<<SlotOf("f1", FALSE)>>)],
     [set_id |-> Some("fossil"), slots |-> Some(<<SlotOf("f1", FALSE), SlotOf("g1", FALSE)>>)],
     [set_id |-> Some("fossil"), slots |-> Some(<<SlotOf("g1", FALSE), SlotOf("zz", FALSE)>>)],
     [set_id |-> Some("base3"), slots |-> Some(<<SlotOf("g1", FALSE)>>)],
     [set_id |-> Some("neo"), slots |-> Some(<<>>)]}

ConcInit ==
    /\ PackIdle
    /\ SaveIdle
    /\ ServerIdle
    /\ progression_config \in ProgressionConfigs
    /\ state = Construct(None, progression_config, 0).state
    /\ owned_unique_by_set = Construct(None, progression_config, 0).owned
    /\ repo = Some(state)
    /\ now = 1
    /\ breq = None
    /\ bresp = None

\* A POST /addCardsToBinder reaches thread t.
ThreadRequest(t) ==
    /\ threads[t].pc = "idle"
    /\ \E r \in ConcPackResults :
          threads' = [threads EXCEPT ![t] = [@ EXCEPT !.pc = "waiting", !.req = Some(r)]]
    /\ UNCHANGED <<lock, config_file, observed, progression_config, state, owned_unique_by_set, repo,
                   now, breq, bresp, pvars, svars>>

\* Mutant: the lock is handed out while another thread holds it.
LockFree_Always == TRUE

\* _binder_lock can be acquired.
LockFree == lock = 0

\* `with _binder_lock:` is entered and add_cards_to_binder runs up to its
\* slot loop: the checks on the payload, and the reading of the clock.
Enter(t) ==
    /\ threads[t].pc = "waiting"
    /\ LockFree
    /\ lock' = t
    /\ LET err == RequestError(Val(threads[t].req))
       IN  IF ~IsNone(err)
           THEN /\ threads' = [threads EXCEPT ![t] = [@ EXCEPT !.pc = "leaving",
                                                               !.resp = err]]
                /\ now' = now
           ELSE /\ threads' =
                      [threads EXCEPT ![t] =
                          [@ EXCEPT !.pc = "reading", !.timestamp = now, !.index = 1,
                                    !.counts = Some([inserted_new |-> 0,
                                                     incremented_duplicates |-> 0,
                                                     invalid_card_ids |-> <<>>,
                                                     updated_card_ids |-> <<>>])]]
                /\ now' = now + 1
    /\ UNCHANGED <<config_file, observed, progression_config, state, owned_unique_by_set, repo,
                   breq, bresp, pvars, svars>>

\* The slot loop reads the cards: existing = self.state["cards"].get(key).
ReadSlot(t) ==
    /\ threads[t].pc = "reading"
    /\ threads[t].index <= Len(Val(Val(threads[t].req).slots))
    /\ threads' = [threads EXCEPT ![t] = [@ EXCEPT !.pc = "writing",
                                                   !.view = Some(state.cards)]]
    /\ UNCHANGED <<lock, config_file, observed, progression_config, state, owned_unique_by_set, repo,
                   now, breq, bresp, pvars, svars>>

\* The slot loop stores what it made of the record it read, and goes on to
\* the next slot.
WriteSlot(t) ==
    /\ threads[t].pc = "writing"
    /\ LET th == threads[t]
           view == Val(th.view)
           counts == Val(th.counts)
           acc == IngestSlot([cards |-> view, owned |-> owned_unique_by_set,
                              inserted_new |-> counts.inserted_new,
                              incremented_duplicates |-> counts.incremented_duplicates,
                              invalid_card_ids |-> counts.invalid_card_ids,
                              updated_card_ids |-> counts.updated_card_ids],
                             Val(Val(th.req).slots)[th.index], Val(Val(th.req).set_id),
                             th.timestamp)
           stored == {k \in DOMAIN acc.cards : k \notin DOMAIN view \/ acc.cards[k] # view[k]}
       IN  /\ state' = [state EXCEPT !.cards =
                          [k \in DOMAIN @ \cup stored |->
                              IF k \in stored THEN acc.cards[k] ELSE @[k]]]
           /\ owned_unique_by_set' = acc.owned
           /\ threads' =
                 [threads EXCEPT ![t] =
                     [@ EXCEPT !.pc = "reading", !.index = @ + 1, !.view = None,
                               !.counts = Some([inserted_new |-> acc.inserted_new,
                                                incremented_duplicates |->
                                                    acc.incremented_duplicates,
                                                invalid_card_ids |-> acc.invalid_card_ids,
                                                updated_card_ids |-> acc.updated_card_ids])]]
    /\ UNCHANGED <<lock, config_file, observed, progression_config, repo, now, breq, bresp, pvars,
                   svars>>

\* After the last slot: progression, milestones, _persist and the summary,
\* or the exception that ends the call before _persist.
Finish(t) ==
    /\ threads[t].pc = "reading"
    /\ threads[t].index > Len(Val(Val(threads[t].req).slots))
    /\ LET th == threads[t]
           counts == Val(th.counts)
           out == FinishIngestion(state,
                                  [cards |-> state.cards, owned |-> owned_unique_by_set,
                                   inserted_new |-> counts.inserted_new,
                                   incremented_duplicates |-> counts.incremented_duplicates,
                                   invalid_card_ids |-> counts.invalid_card_ids,
                                   updated_card_ids |-> counts.updated_card_ids],
                                  progression_config, Val(Val(th.req).set_id),
                                  Val(Val(th.req).slots), th.timestamp)
       IN  /\ state' = out.state
           /\ owned_unique_by_set' = out.owned
           /\ repo' = IF out.persisted THEN Some(out.state) ELSE repo
           /\ threads' = [threads EXCEPT ![t] = [@ EXCEPT !.pc = "leaving",
                                                          !.counts = None,
                                                          !.resp = Some(out.resp)]]
    /\ UNCHANGED <<lock, config_file, observed, progression_config, now, breq, bresp, pvars, svars>>

\* The `with` block is left, by return or by exception: the lock is
\* released and the endpoint answers.
Leave(t) ==
    /\ threads[t].pc = "leaving"
    /\ lock' = 0
    /\ threads' = [threads EXCEPT ![t] = [@ EXCEPT !.pc = "done"]]
    /\ UNCHANGED <<config_file, observed, progression_config, state, owned_unique_by_set, repo, now,
                   breq, bresp, pvars, svars>>

\* A read-only endpoint (get_binder_state, get_collection_progress,
\* get_unlocked_sets, the owned-card lookup of open_pack_endpoint) reads the
\* service's state and index; none of them takes _binder_lock.
Query ==
    /\ IsNone(observed)
    /\ observed' = Some([state |-> state, owned |-> owned_unique_by_set])
    /\ UNCHANGED <<lock, threads, config_file, progression_config, state, owned_unique_by_set,
                   repo, now, breq, bresp, pvars, svars>>

\* The read-only endpoint answers.
QueryReturn ==
    /\ ~IsNone(observed)
    /\ observed' = None
    /\ UNCHANGED <<lock, threads, config_file, progression_config, state, owned_unique_by_set,
                   repo, now, breq, bresp, pvars, svars>>

ConcNext ==
    \/ \E t \in Threads :
          \/ ThreadRequest(t)
          \/ Enter(t)
          \/ ReadSlot(t)
          \/ WriteSlot(t)
          \/ Finish(t)
          \/ Leave(t)
    \/ Query
    \/ QueryReturn

ConcSpec == ConcInit /\ [][ConcNext]_vars

\* The threads whose call has ended, and whether no call is under way.
DoneThreads == {t \in Threads : threads[t].pc = "done"}
Quiescent == \A t \in Threads : threads[t].pc \in {"idle", "done"}

\* The threads inside add_cards_to_binder.
InsideCall == {t \in Threads : threads[t].pc \in {"reading", "writing", "leaving"}}

\* The orders in which the calls that ended can be put.
SerialOrders ==
    {p \in [1 .. Cardinality(DoneThreads) -> DoneThreads] :
        \A i, j \in DOMAIN p : p[i] = p[j] => i = j}

\* The calls of the threads made one after the other, in the order given,
\* each with the clock reading its thread took.
RECURSIVE SerialRun(_, _, _)
SerialRun(cur, order, i) ==
    IF i > Len(order) THEN cur
    ELSE LET t == order[i]
             out == AddCardsToBinder(cur.state, cur.owned, progression_config,
                                     Val(threads[t].req), threads[t].timestamp)
         IN  SerialRun([state |-> out.state, owned |-> out.owned,
                        repo |-> IF out.persisted THEN Some(out.state) ELSE cur.repo,
                        resp |-> Put(cur.resp, t, out.resp)],
                       order, i + 1)

SerialStart ==
    [state |-> Construct(None, progression_config, 0).state,
     owned |-> Construct(None, progression_config, 0).owned,
     repo |-> Some(Construct(None, progression_config, 0).state),
     resp |-> EmptyMap]

\* Slots of the calls that ended which name card c of set s.
RECURSIVE SlotsNaming(_, _, _)
SlotsNaming(ts, s, c) ==
    IF ts = {} THEN 0
    ELSE LET t == CHOOSE x \in ts : TRUE
             req == Val(threads[t].req)
             slots == IF IsNone(req.slots) THEN <<>> ELSE Val(req.slots)
         IN  (IF req.set_id = Some(s)
              THEN Cardinality({i \in DOMAIN slots :
                                   slots[i].dict /\ ~IsNone(slots[i].card_id)
                                   /\ Strip(Val(slots[i].card_id)) = c})
              ELSE 0)
             + SlotsNaming(ts \ {t}, s, c)

\* C22: concurrent ingestions are serialized by the lock: at most one thread
\* is inside add_cards_to_binder at a time; when no call is under way, the
\* state in memory, the index, the file and every response are those of the
\* calls made one after the other in some order; and the quantity of every
\* card is the number of slots that named it, so that no increment is lost.
C22_IngestionsSerialized ==
    /\ Cardinality(InsideCall) <= 1
    /\ Quiescent =>
          /\ \E order \in SerialOrders :
                LET serial == SerialRun(SerialStart, order, 1)
                IN  /\ state = serial.state
                    /\ owned_unique_by_set = serial.owned
                    /\ repo = serial.repo
                    /\ \A t \in DoneThreads : threads[t].resp = Some(serial.resp[t])
          /\ \A s \in {"fossil", "base3"} : \A c \in cards_by_set[s] :
                QuantityIn(state.cards, <<s, c>>) = SlotsNaming(DoneThreads, s, c)

\* Two calls that ended both credited fossil card f1, which is owned twice.
C22_Witness ==
    /\ Cardinality(DoneThreads) >= 2
    /\ \A t \in DoneThreads :
          /\ Val(threads[t].req).set_id = Some("fossil")
          /\ Val(Val(threads[t].req).slots)[1] = SlotOf("f1", FALSE)
          /\ Val(threads[t].resp).status = "ok"
    /\ QuantityIn(state.cards, <<"fossil", "f1">>) >= 2

(***************************************************************************)
(* Milestones and completion (checked under Spec).                         *)
(***************************************************************************)
\* Positions of the SET_MILESTONE_REACHED events for set s and threshold t.
MilestoneEvents(events, s, t) ==
    {i \in 1..Len(events) :
        /\ events[i].type = "SET_MILESTONE_REACHED"
        /\ events[i].set_id = Some(s)
        /\ events[i].details.threshold = t}

\* The configured thresholds that the completion percentage of s reaches.
ThresholdsMet(owned, s) ==
    {t \in Range(progression_config.milestone_thresholds) :
        GetCollectionProgress(owned, s).completion_percentage >= 100 * t}

\* C23: with milestone tracking on, after an ingestion into set s the
\* achieved list of s is what it was united with every configured threshold
\* that the completion percentage of s reaches, ascending without
\* duplicates; every threshold newly in the list has got exactly one
\* SET_MILESTONE_REACHED event for (s, t) and no other threshold has got
\* one; the milestone lists of all other sets are as before.
C23_MilestonesRecorded ==
    [][(IngestionStep /\ BReqAdmitted /\ progression_config.track_partial_milestones) =>
          LET before == Get(state.set_milestones, BSet, <<>>)
              after == Get(state'.set_milestones, BSet, <<>>)
              met == ThresholdsMet(owned_unique_by_set', BSet)
          IN  /\ Range(after) = Range(before) \cup met
              /\ \A i, j \in 1..Len(after) : i < j => after[i] < after[j]
              /\ \A t \in Range(progression_config.milestone_thresholds) :
                    Cardinality(MilestoneEvents(state'.events, BSet, t))
                      = Cardinality(MilestoneEvents(state.events, BSet, t))
                        + (IF t \in met \ Range(before) THEN 1 ELSE 0)
              /\ \A s \in (DOMAIN state.set_milestones \cup DOMAIN state'.set_milestones)
                            \ {BSet} :
                    /\ s \in DOMAIN state.set_milestones
                    /\ s \in DOMAIN state'.set_milestones
                    /\ state'.set_milestones[s] = state.set_milestones[s]
      ]_vars

\* The sets with a pool file that lists no card.
EmptySets == {s \in DOMAIN cards_by_set : total_cards_by_set[s] = 0}

\* Positions of the SET_COMPLETED events for set s.
CompletedEvents(events, s) ==
    {i \in 1..Len(events) : events[i].type = "SET_COMPLETED" /\ events[i].set_id = Some(s)}

\* C24: for a known set whose catalog total is 0, get_collection_progress
\* gives completion_percentage 0, remaining 0 and is_complete false in
\* every state of the service; an ingestion into such a set returns
\* set_completed = false, and no ingestion logs a SET_COMPLETED event for it
\* or reports a set as newly unlocked on its account.
C24_EmptySetNeverComplete ==
    /\ [](Constructed =>
            \A s \in EmptySets :
                LET report == GetCollectionProgress(owned_unique_by_set, s)
                IN  /\ report.total_available = 0
                    /\ report.completion_percentage = 0
                    /\ report.remaining = 0
                    /\ ~report.is_complete
                    /\ ~IsSetComplete(owned_unique_by_set, s))
    /\ [][(IngestionStep /\ BReqAdmitted) =>
            \A s \in EmptySets :
                /\ (BSet = s /\ Val(bresp').status = "ok") => ~Val(bresp').set_completed
                /\ Cardinality(CompletedEvents(state'.events, s))
                     = Cardinality(CompletedEvents(state.events, s))
                /\ \A i \in 1..(Len(Order) - 1) :
                      Order[i] = s =>
                         /\ Order[i + 1] \in Range(state'.unlocked_sets)
                               => Order[i + 1] \in Range(state.unlocked_sets)
                         /\ Val(bresp').status = "ok"
                               => Order[i + 1] \notin Range(Val(bresp').newly_unlocked_sets)
          ]_vars

\* An ingestion into base4, the first set of the order, has returned its
\* summary.
C24_Witness ==
    /\ Constructed
    /\ "base4" \in EmptySets
    /\ Order[1] = "base4"
    /\ ~IsNone(breq) /\ BReq.set_id = Some("base4") /\ Len(BSlots) = 1
    /\ ~IsNone(bresp) /\ Val(bresp).status = "ok"
    /\ Val(bresp).invalid_card_ids = <<"f1">>
    /\ ~Val(bresp).set_completed

\* The sets with cards.
NonEmptySets == {s \in DOMAIN cards_by_set : total_cards_by_set[s] > 0}

\* The cards of set s with a record in `cards`.
Ingested(cards, s) == {c \in cards_by_set[s] : <<s, c>> \in DOMAIN cards}

\* C25: from an empty binder, for a set s with N > 0 cards: once every card
\* of s has been ingested, get_collection_progress reports is_complete,
\* 100 percent, remaining 0 and owned_unique N; before that it reports
\* is_complete false and remaining = N - owned_unique, with owned_unique
\* the number of cards ingested; and the ingestion that credits the last
\* missing card of its set returns a summary with set_completed = true.
C25_CompleteOnceAllIngested ==
    /\ [](\A s \in NonEmptySets :
            LET report == GetCollectionProgress(owned_unique_by_set, s)
                N == total_cards_by_set[s]
            IN  /\ report.owned_unique = Cardinality(Ingested(state.cards, s))
                /\ IF Ingested(state.cards, s) = cards_by_set[s]
                   THEN /\ report.is_complete
                        /\ report.completion_percentage = 100 * 100
                        /\ report.remaining = 0
                        /\ report.owned_unique = N
                   ELSE /\ ~report.is_complete
                        /\ report.remaining = N - report.owned_unique
                        /\ report.remaining > 0)
    /\ [][(IngestionStep /\ BReqAdmitted /\ BSet \in NonEmptySets
             /\ Ingested(state.cards, BSet) # cards_by_set[BSet]
             /\ Ingested(state'.cards, BSet) = cards_by_set[BSet]) =>
            /\ Val(bresp').status = "ok"
            /\ Val(bresp').set_completed
          ]_vars

(***************************************************************************)
(* The pity placeholder of open_pack (checked under PackSpec).             *)
(***************************************************************************)
\* The call's config carries a positive pity_after_packs, and the call is
\* seeded.
PPityGiven ==
    /\ ~IsNone(PReq.config)
    /\ "pity_after_packs" \in DOMAIN Val(PReq.config)
    /\ ~IsNone(Val(PReq.config).pity_after_packs)
    /\ Val(Val(PReq.config).pity_after_packs) > 0
    /\ ~IsNone(PReq.seed)

\* The outcome of the same call, same seed, with pity_after_packs left out
\* of the config.
PWithoutPity ==
    LET given == Val(PReq.config)
        without == [k \in (DOMAIN given) \ {"pity_after_packs"} |-> given[k]]
    IN  OpenPackFrom(CHOOSE r \in SeedStates(PReq.seed) : TRUE, PReq.set_id, Some(without),
                     PReq.binder_state, PReq.seed)

\* C26: pity_after_packs has no effect on the pack.  A seeded call whose
\* config gives a positive pity_after_packs ends as the same call without the
\* field: the same exception, or a result with the same slots, summary,
\* debug block, set id and seed, whose echoed config differs in
\* pity_after_packs only, where it holds the value given.
C26_PityHasNoEffect ==
    (PackAnswered /\ PPityGiven) =>
        /\ PResp.status = PWithoutPity.status
        /\ PResp.status # "ok" => PResp = PWithoutPity
        /\ PResp.status = "ok" =>
              /\ PResp.slots = PWithoutPity.slots
              /\ PResp.summary = PWithoutPity.summary
              /\ PResp.debug = PWithoutPity.debug
              /\ PResp.set_id = PWithoutPity.set_id
              /\ PResp.seed = PWithoutPity.seed
              /\ PResp.config.pity_after_packs = Val(PReq.config).pity_after_packs
              /\ IsNone(PWithoutPity.config.pity_after_packs)
              /\ \A f \in AllowedFields \ {"pity_after_packs"} :
                    PResp.config[f] = PWithoutPity.config[f]

\* A pack of base2 opened with pity_after_packs = 2 and holo chance 0.
C26_Witness ==
    /\ PackOk /\ PPityGiven
    /\ PReq.set_id = "base2"
    /\ Val(Val(PReq.config).pity_after_packs) = 2
    /\ Val(PReq.config).holo_upgrade_chance = 0
    /\ PResp.config.pity_after_packs = Some(2)
    /\ Len(PResp.slots) = PACK_SIZE

(***************************************************************************)
(* The summary of add_cards_to_binder (checked under Spec).                *)
(***************************************************************************)
\* C27: every slot of an ingestion is accounted for in its summary:
\* cards_written + len(invalid_card_ids) = total_slots_processed = the
\* number of slots submitted, and cards_written = new_discoveries +
\* duplicate_increments, whatever the slots are.
C27_EverySlotAccounted ==
    (~IsNone(breq) /\ ~IsNone(bresp) /\ Val(bresp).status = "ok") =>
        /\ Val(bresp).total_slots_processed = Len(BSlots)
        /\ Val(bresp).cards_written + Len(Val(bresp).invalid_card_ids)
             = Val(bresp).total_slots_processed
        /\ Val(bresp).cards_written
             = Val(bresp).new_discoveries + Val(bresp).duplicate_increments

(***************************************************************************)
(* ConfigSpec: create_default_binder_service reads config/progression.json *)
(* and constructs the service on it.  A JSON value is its kind and what    *)
(* the program reads of it; a key the object lacks is JAbsent.             *)
(***************************************************************************)
JAbsent == [kind |-> "absent"]
JNull == [kind |-> "null"]
JStr(text) == [kind |-> "str", text |-> text]
JInt(n) == [kind |-> "int", n |-> n]
JBool(b) == [kind |-> "bool", b |-> b]
JList(items) == [kind |-> "list", items |-> items]

\* not x.strip(): the string is empty or blanks only.
IsBlank(text) == text \in {"", " "}

\* isinstance(x, int), which holds of a bool too, and the integer x is.
IsInt(x) == x.kind \in {"int", "bool"}
IntOf(x) == IF x.kind = "int" THEN x.n ELSE IF x.b THEN 1 ELSE 0

\* The progression_order that load_progression_config makes of the value
\* under that key.
LoadedProgressionOrder(v) ==
    IF v.kind = "absent" THEN DefaultProgressionConfig.progression_order
    ELSE IF v.kind # "list"
            \/ ~(\A i \in 1..Len(v.items) :
                    v.items[i].kind = "str" /\ ~IsBlank(v.items[i].text))
    THEN DefaultProgressionConfig.progression_order
    ELSE [i \in 1..Len(v.items) |-> v.items[i].text]

\* A bool field of the config: the value, or the default.
LoadedBool(v, default) == IF v.kind = "bool" THEN v.b ELSE default

\* The milestone_thresholds that load_progression_config makes of the value
\* under that key.
LoadedMilestones(v) ==
    IF v.kind = "absent" THEN Sorted(Range(DEFAULT_MILESTONE_THRESHOLDS))
    ELSE IF v.kind # "list"
            \/ ~(\A i \in 1..Len(v.items) :
                    IsInt(v.items[i]) /\ 0 < IntOf(v.items[i]) /\ IntOf(v.items[i]) <= 100)
    THEN Sorted(Range(DEFAULT_MILESTONE_THRESHOLDS))
    ELSE Sorted({IntOf(v.items[i]) : i \in 1..Len(v.items)})

\* load_progression_config of what is at the config path: no file, a file
\* that json.loads rejects, a root that is no object, or an object.
LoadProgressionConfig(file) ==
    IF IsNone(file) THEN DefaultProgressionConfig
    ELSE IF "syntax_error" \in DOMAIN Val(file) \/ "not_an_object" \in DOMAIN Val(file)
    THEN DefaultProgressionConfig
    ELSE [progression_order |-> LoadedProgressionOrder(Val(file).progression_order),
          track_partial_milestones |->
              LoadedBool(Val(file).track_partial_milestones,
                         DefaultProgressionConfig.track_partial_milestones),
          milestone_thresholds |-> LoadedMilestones(Val(file).milestone_thresholds),
          maintain_pack_history |->
              LoadedBool(Val(file).maintain_pack_history,
                         DefaultProgressionConfig.maintain_pack_history)]

\* The values tried under each key of the config object.
OrderValues ==
    {JAbsent, JNull, JStr("fossil"), JList(<<>>), JList(<<JStr("fossil")>>),
     JList(<<JStr("base3"), JStr("neo"), JStr("fossil")>>),
     JList(<<JStr("fossil"), JStr(" ")>>), JList(<<JStr("")>>),
     JList(<<JStr("fossil"), JInt(3)>>), JList(<<JNull>>)}
FlagValues == {JAbsent, JBool(TRUE), JBool(FALSE), JInt(1)}
MilestoneValues ==
    {JAbsent, JInt(50), JList(<<>>), JList(<<JInt(50), JInt(10), JInt(50)>>),
     JList(<<JInt(0), JInt(50)>>), JList(<<JInt(101)>>), JList(<<JStr("50")>>),
     JList(<<JBool(TRUE), JInt(100)>>)}

ConfigFiles ==
    {None, Some(UnparsableFile), Some(ListFile)}
    \cup {Some([progression_order |-> o, track_partial_milestones |-> t,
                milestone_thresholds |-> m, maintain_pack_history |-> h]) :
             o \in OrderValues, t \in FlagValues, m \in MilestoneValues, h \in FlagValues}

\* The config file is on disk and there is no binder file; the process is
\* not started.
ConfigInit ==
    /\ PackIdle
    /\ SaveIdle
    /\ lock = 0
    /\ threads = [t \in Threads |-> IdleThread]
    /\ observed = None
    /\ config_file \in ConfigFiles
    /\ progression_config = DefaultProgressionConfig
    /\ state = EmptyState
    /\ owned_unique_by_set = EmptyMap
    /\ repo = None
    /\ now = 0
    /\ breq = None
    /\ bresp = None

\* create_default_binder_service: the config is loaded and the service is
\* constructed on it.
CreateDefaultBinderService ==
    /\ now = 0
    /\ progression_config' = LoadProgressionConfig(config_file)
    /\ LET c == Construct(LoadStored(repo), LoadProgressionConfig(config_file), now)
       IN  /\ state' = c.state
           /\ owned_unique_by_set' = c.owned
           /\ repo' = Some(c.state)
    /\ now' = now + 1
    /\ UNCHANGED <<lock, threads, config_file, observed, breq, bresp, pvars, svars>>

ConfigNext == CreateDefaultBinderService

ConfigSpec == ConfigInit /\ [][ConfigNext]_vars

\* The value under progression_order is there and is no list, or a list
\* with an item that is no string or a blank one, or the empty list.
OrderMalformed(v) ==
    /\ v.kind # "absent"
    /\ \/ v.kind # "list"
       \/ v.items = <<>>
       \/ \E i \in 1..Len(v.items) : v.items[i].kind # "str" \/ IsBlank(v.items[i].text)

\* C28: the progression order that load_progression_config produces is a
\* non-empty list of non-blank strings; it is the built-in order of six
\* sets when there is no usable config object, when the key is absent and
\* when its value is malformed, the empty list included, whatever the
\* other fields hold; else it is the list configured.
C28_OrderNeverEmpty ==
    Constructed =>
        /\ Order # <<>>
        /\ \A i \in 1..Len(Order) : ~IsBlank(Order[i])
        /\ IF IsNone(config_file) \/ Val(config_file) \in {UnparsableFile, ListFile}
           THEN Order = <<"base2", "jungle", "fossil", "base3", "base4", "base5">>
           ELSE LET v == Val(config_file).progression_order
                IN  IF v.kind = "absent" \/ OrderMalformed(v)
                    THEN Order = <<"base2", "jungle", "fossil", "base3", "base4", "base5">>
                    ELSE Order = [i \in 1..Len(v.items) |-> v.items[i].text]

(***************************************************************************)
(* SET_COMPLETED events (checked under LoadSpec).                          *)
(***************************************************************************)
\* get_collection_progress(s)["is_complete"] by the index `owned`.
ReportedComplete(owned, s) == s \in DOMAIN cards_by_set /\ GetCollectionProgress(owned, s).is_complete

\* C29 as claimed: after every ingestion, every set of the progression
\* order that is complete has exactly one SET_COMPLETED event in the log.
C29_EveryCompleteSetHasEvent ==
    [][(IngestionStep /\ BReqAdmitted) =>
          \A i \in 1..Len(Order) :
              ReportedComplete(owned_unique_by_set', Order[i]) =>
                  Cardinality(CompletedEvents(state'.events, Order[i])) = 1
      ]_vars

\* C29, amended: an ingestion into set s appends one SET_COMPLETED event
\* for s when s stands in the progression order, is complete after the
\* call's slots and has no such event yet; it appends no other
\* SET_COMPLETED event: none for another set, complete or not, and never a
\* second one for s.
C29_CompletedEventForPackSet ==
    [][(IngestionStep /\ BReqAdmitted) =>
          \A s \in DOMAIN cards_by_set :
              LET before == Cardinality(CompletedEvents(state.events, s))
                  after == Cardinality(CompletedEvents(state'.events, s))
                  due == /\ s = BSet
                         /\ s \in Range(Order)
                         /\ ReportedComplete(owned_unique_by_set', s)
                         /\ before = 0
              IN  after = before + (IF due THEN 1 ELSE 0)
      ]_vars

\* An ingestion has completed fossil, which has its event, while base3,
\* complete since the file was loaded, has none.
C29_Witness ==
    /\ Constructed
    /\ ~IsNone(breq) /\ ~IsNone(bresp) /\ Val(bresp).status = "ok"
    /\ BReq.set_id = Some("fossil")
    /\ Val(bresp).set_completed
    /\ Cardinality(CompletedEvents(state.events, "fossil")) = 1
    /\ "base3" \in Range(Order)
    /\ ReportedComplete(owned_unique_by_set, "base3")
    /\ CompletedEvents(state.events, "base3") = {}

(***************************************************************************)
(* Monotonicity of the binder state (checked under LoadSpec).              *)
(***************************************************************************)
\* Sequence a is the beginning of sequence b.
IsPrefix(a, b) == Len(a) <= Len(b) /\ SubSeq(b, 1, Len(a)) = a

\* C30: an ingestion, whether it returns a summary or raises, removes no
\* card record and lowers no quantity_owned; unlocked_sets gains entries at
\* its end only, so that the entries it had keep their order; the achieved
\* milestone list of every set keeps its values; and the event log before
\* the call is a prefix of the log after it.
C30_StateMonotonic ==
    [][IngestionStep =>
          /\ DOMAIN state.cards \subseteq DOMAIN state'.cards
          /\ \A k \in DOMAIN state.cards :
                state'.cards[k].quantity_owned >= state.cards[k].quantity_owned
          /\ IsPrefix(state.unlocked_sets, state'.unlocked_sets)
          /\ DOMAIN state.set_milestones \subseteq DOMAIN state'.set_milestones
          /\ \A s \in DOMAIN state.set_milestones :
                Range(state.set_milestones[s]) \subseteq Range(state'.set_milestones[s])
          /\ IsPrefix(state.events, state'.events)
      ]_vars

\* An ingestion into a binder loaded from a file has raised the quantity of
\* f1 to 3 and added to the fossil milestones, the unlocked sets and the
\* events which the file held.
C30_Witness ==
    /\ Constructed
    /\ ~IsNone(breq) /\ ~IsNone(bresp) /\ Val(bresp).status = "ok"
    /\ Val(bresp).duplicate_increments >= 1
    /\ QuantityIn(state.cards, <<"fossil", "f1">>) = 3
    /\ Get(state.set_milestones, "fossil", <<>>) = <<25, 50, 75, 100>>
    /\ Len(state.unlocked_sets) >= 2
    /\ Len(state.events) >= 6

(***************************************************************************)
(* Load sanitisation of unlocked sets and milestones (checked under        *)
(* LoadSpec).                                                              *)
(***************************************************************************)
\* The set id has a pool file.
InCatalog(s) == s \in PoolFiles

\* C31: on the start from a binder file that holds an object, the unlocked
\* sets are the file's entries that the catalog knows, in the file's order
\* (followed by the first set of the progression order where it is not
\* among them); the milestone lists are those of the file's known sets, and
\* each holds the file's values within (0,100], ascending and without
\* duplicates.
C31_LoadFiltersUnlockedAndMilestones ==
    [][(now = 0 /\ now' = 1 /\ ~BadStorage) =>
          LET file == Val(repo)
              kept == SelectSeq(file.unlocked_sets, InCatalog)
          IN  /\ state'.unlocked_sets =
                    IF Order = <<>> \/ Order[1] \in Range(kept) THEN kept
                    ELSE Append(kept, Order[1])
              /\ DOMAIN state'.set_milestones
                    = {s \in DOMAIN file.set_milestones : InCatalog(s)}
              /\ \A s \in DOMAIN state'.set_milestones :
                    LET list == state'.set_milestones[s]
                    IN  /\ Range(list) = {v \in Range(file.set_milestones[s]) : v > 0 /\ v <= 100}
                        /\ \A i, j \in 1..Len(list) : i < j => list[i] < list[j]
      ]_vars

\* The service has started on the edited file: of its unlocked sets neo and
\* jungle, jungle is left; of its milestone lists, that of fossil,
\* as [25, 50].
C31_Witness ==
    /\ now = 1 /\ IsNone(breq)
    /\ Order[1] = "fossil"
    /\ state.unlocked_sets = <<"jungle", "fossil">>
    /\ DOMAIN state.set_milestones = {"fossil"}
    /\ state.set_milestones["fossil"] = <<25, 50>>
    /\ <<"jungle", "j7">> \in DOMAIN state.cards

(***************************************************************************)
(* add_cards_to_binder completes (checked under Spec).                     *)
(***************************************************************************)
\* C32: a call of add_cards_to_binder whose set id the catalog knows and
\* whose slots are a list returns a summary, whatever the slots hold and
\* whatever sets the progression order names, and what it changed in memory
\* is in the binder file when it ends.
C32_IngestionNeverRaises ==
    [][(IngestionStep /\ BReqAdmitted) =>
          /\ Val(bresp').status = "ok"
          /\ repo' = Some(state')
      ]_vars

(***************************************************************************)
(* The owned index (checked under LoadSpec).                               *)
(***************************************************************************)
\* The card ids with a record of set s whose quantity is above 0.
OwnedByRecords(cards, s) ==
    {cards[k].card_id : k \in {x \in DOMAIN cards :
                                  cards[x].set_id = s /\ cards[x].quantity_owned > 0}}

\* C33: in every state of the started service, owned_unique_by_set[s] is
\* the set of card ids that have a record in set s with quantity_owned > 0,
\* for every set s (the empty set where the index has no entry).
C33_IndexAgreesWithRecords ==
    Constructed =>
        \A s \in PoolFiles \cup DOMAIN owned_unique_by_set :
            Get(owned_unique_by_set, s, {}) = OwnedByRecords(state.cards, s)

(***************************************************************************)
(* Restart round trip (checked under LoadSpec).                            *)
(***************************************************************************)
\* This step constructs a new BinderService in place of a running one.
RestartStep == Constructed /\ IsNone(breq) /\ IsNone(breq')

\* C34: a restart of a service whose state is the persisted one, as it is
\* after successful ingestions, yields the cards, unlocked_sets,
\* set_milestones and events that were in memory, so that load drops
\* nothing and construction logs no event; it yields the same progress
\* report for every set, and saves the same file.
C34_RestartRoundTrip ==
    [][(RestartStep /\ repo = Some(state)) =>
          /\ state'.cards = state.cards
          /\ state'.unlocked_sets = state.unlocked_sets
          /\ state'.set_milestones = state.set_milestones
          /\ state'.events = state.events
          /\ repo' = repo
          /\ \A s \in PoolFiles :
                GetCollectionProgress(owned_unique_by_set', s)
                  = GetCollectionProgress(owned_unique_by_set, s)
      ]_vars

(***************************************************************************)
(* Read-only queries beside ingestions (checked under ConcSpec).           *)
(***************************************************************************)
\* The threads that have entered add_cards_to_binder.
EnteredThreads == {t \in Threads : threads[t].pc \notin {"idle", "waiting"}}

\* The orders in which some of the calls entered can be put.
PartialOrders ==
    UNION {{p \in [1 .. Cardinality(S) -> S] : \A i, j \in DOMAIN p : p[i] = p[j] => i = j} :
              S \in SUBSET EnteredThreads}

\* C35: what a read-only query reads while ingestions run is the state and
\* index of the service before or after complete ingestions: those that
\* some of the calls entered so far, made whole one after the other, lead
\* to.
C35_QueriesSeeWholeIngestions ==
    ~IsNone(observed) =>
        \E order \in PartialOrders :
            LET serial == SerialRun(SerialStart, order, 1)
            IN  /\ Val(observed).state = serial.state
                /\ Val(observed).owned = serial.owned

(***************************************************************************)
(* Locked sets and ingestion (checked under Spec).                         *)
(***************************************************************************)
\* The sets that have a card record.
SetsWithRecords == {k[1] : k \in DOMAIN state.cards}

RECURSIVE ListOf(_)
ListOf(S) == IF S = {} THEN <<>> ELSE LET x == CHOOSE y \in S : TRUE IN <<x>> \o ListOf(S \ {x})

\* Mutant of OwnedCardIdsForSet: no owned card id is handed to open_pack.
OwnedCardIdsForSet_Empty(st, set_id) == <<>>

\* _owned_card_ids_for_set: the card ids of the records of the set whose
\* quantity is above 0 (open_pack makes a set of the list).
OwnedCardIdsForSet(st, set_id) ==
    ListOf({k[2] : k \in {x \in DOMAIN st.cards :
                             /\ st.cards[x].set_id = set_id
                             /\ st.cards[x].quantity_owned > 0}})

\* The pack_result the client posts: the /openPack response, of which
\* add_cards_to_binder reads set_id and each slot's card_id.
PostedPack(pack) ==
    [set_id |-> Some(pack.set_id),
     slots |-> Some([i \in 1..Len(pack.slots) |-> SlotOf(pack.slots[i].card_id, FALSE)])]

\* The /openPack requests tried: no config (duplicates allowed), duplicates
\* disallowed, and two rare slots with duplicates allowed.
ApiPackConfigs ==
    {None, Some([allow_duplicates_within_pack |-> FALSE]),
     Some(ConfigDict(<<2, 3, 5>>, ChanceDen, TRUE, None, {}))}

ApiPackCalls ==
    {PackCall(s, c, None, Some(n)) :
        s \in {"base2", "jungle", "fossil"}, c \in ApiPackConfigs, n \in 0..MaxSeed}

\* The binder file the server starts on: none, or one that a run of the
\* program can leave with a record of quantity 0 kept from an earlier file.
ApiFile ==
    [version |-> 1,
     cards |->
        (<<"base2", "b1">> :> FileRecord("base2", "b1", 1))
        @@ (<<"jungle", "j1">> :> FileRecord("jungle", "j1", 0)),
     unlocked_sets |-> <<"base2">>,
     set_milestones |-> EmptyMap,
     events |-> <<FileEvent("INITIAL_SET_UNLOCKED", "base2",
                            [reason |-> "first_set_in_progression"])>>,
     pack_history |-> <<>>]

ApiProgressionConfigs ==
    {[progression_order |-> <<"base2", "jungle">>,
      track_partial_milestones |-> TRUE,
      milestone_thresholds |-> DEFAULT_MILESTONE_THRESHOLDS,
      maintain_pack_history |-> FALSE],
     [progression_order |-> <<"base2", "neo", "jungle">>,
      track_partial_milestones |-> FALSE,
      milestone_thresholds |-> DEFAULT_MILESTONE_THRESHOLDS,
      maintain_pack_history |-> FALSE]}

\* The server is up: the service constructed at clock 0.
ApiInit ==
    /\ PackIdle
    /\ SaveIdle
    /\ ServerIdle
    /\ progression_config \in ApiProgressionConfigs
    /\ \E file \in {None, Some(ApiFile)} :
          /\ state = Construct(LoadStored(file), progression_config, 0).state
          /\ owned_unique_by_set = Construct(LoadStored(file), progression_config, 0).owned
    /\ repo = Some(state)
    /\ now = 1
    /\ breq = None
    /\ bresp = None

\* An /openPack request arrives.
OpenPackRequest ==
    /\ IsNone(preq) /\ IsNone(breq)
    /\ now < MaxTime
    /\ \E c \in ApiPackCalls : preq' = Some(c)
    /\ UNCHANGED <<presp, pprev, pcalls, bvars, svars, cvars>>

\* open_pack_endpoint: open_pack with the owned card ids of the set as the
\* binder stands.
OpenPackEndpoint ==
    /\ ~IsNone(preq) /\ IsNone(presp)
    /\ \E rng0 \in SeedStates(Val(preq).seed) :
          presp' = Some(OpenPackFrom(rng0, Val(preq).set_id, Val(preq).config,
                                     Some([kind |-> "owned_card_ids",
                                           ids |-> OwnedCardIdsForSet(state, Val(preq).set_id)]),
                                     Val(preq).seed))
    /\ pcalls' = pcalls + 1
    /\ UNCHANGED <<preq, pprev, bvars, svars, cvars>>

\* The client posts the pack to /addCardsToBinder.
PostPack ==
    /\ ~IsNone(presp) /\ Val(presp).status = "ok"
    /\ IsNone(breq)
    /\ breq' = Some(PostedPack(Val(presp)))
    /\ bresp' = None
    /\ UNCHANGED <<progression_config, state, owned_unique_by_set, repo, now, pvars, svars, cvars>>

\* The client is done with the pack: /openPack failed, or
\* /addCardsToBinder has answered.
ApiReturn ==
    /\ ~IsNone(presp)
    /\ Val(presp).status # "ok" \/ ~IsNone(bresp)
    /\ preq' = None /\ presp' = None /\ pprev' = None /\ pcalls' = 0
    /\ breq' = None /\ bresp' = None
    /\ UNCHANGED <<progression_config, state, owned_unique_by_set, repo, now, svars, cvars>>

ApiNext == OpenPackRequest \/ OpenPackEndpoint \/ PostPack \/ AddCards \/ ApiReturn

ApiSpec == ApiInit /\ [][ApiNext]_vars

(***************************************************************************)
(* The pack's summary and the ingestion's summary (checked under ApiSpec). *)
(***************************************************************************)
\* The pack that is being ingested, and the card ids in it.
PPack == Val(presp)
PPackIds == {PPack.slots[i].card_id : i \in 1..Len(PPack.slots)}
\* The card ids of the pack that have no record in the binder, and those
\* that have a record of quantity 0.
PPackUnrecorded == {c \in PPackIds : <<PPack.set_id, c>> \notin DOMAIN state.cards}
PPackZeroQuantity ==
    {c \in PPackIds : /\ <<PPack.set_id, c>> \in DOMAIN state.cards
                      /\ state.cards[<<PPack.set_id, c>>].quantity_owned = 0}
\* This step ingests the pack that /openPack has just returned.
PackIngestionStep ==
    /\ IngestionStep
    /\ ~IsNone(presp) /\ PPack.status = "ok"
    /\ BReq = PostedPack(PPack)

\* C37 as claimed: when the pack just drawn is ingested and a summary comes
\* back, its new_discoveries is the pack's summary.new_cards and its
\* duplicate_increments is the pack's summary.duplicate_cards, whether the
\* pack was drawn with duplicates allowed or not.
C37_DrawAndIngestionAgree ==
    [][(PackIngestionStep /\ Val(bresp').status = "ok") =>
          /\ Val(bresp').new_discoveries = PPack.summary.new_cards
          /\ Val(bresp').duplicate_increments = PPack.summary.duplicate_cards
      ]_vars

\* C37, amended: open_pack tags every slot against the owned ids before the
\* draw, add_cards_to_binder counts a card new once, when it creates the
\* record.  The ingestion of the pack just drawn creates a record for
\* exactly the card ids of the pack that had none, each tagged is_new in
\* every slot of the pack; its summary has new_discoveries = the number of
\* those card ids, new_discoveries + duplicate_increments = total_cards and
\* new_discoveries <= new_cards.  Both counts equal the pack's when the
\* pack was drawn with duplicates disallowed and no card of the pack has a
\* record of quantity 0.
C37_NewOncePerCardId ==
    [][PackIngestionStep =>
          /\ DOMAIN state'.cards \ DOMAIN state.cards
                = {<<PPack.set_id, c>> : c \in PPackUnrecorded}
          /\ \A i \in 1..Len(PPack.slots) :
                PPack.slots[i].card_id \in PPackUnrecorded => PPack.slots[i].is_new
          /\ Val(bresp').status = "ok" =>
                /\ Val(bresp').new_discoveries = Cardinality(PPackUnrecorded)
                /\ Val(bresp').new_discoveries + Val(bresp').duplicate_increments
                      = PPack.summary.total_cards
                /\ Val(bresp').new_discoveries <= PPack.summary.new_cards
                /\ (~PPack.config.allow_duplicates_within_pack /\ PPackZeroQuantity = {}) =>
                      /\ Val(bresp').new_discoveries = PPack.summary.new_cards
                      /\ Val(bresp').duplicate_increments = PPack.summary.duplicate_cards
      ]_vars

\* A second pack, drawn with duplicates disallowed, was ingested: some of
\* its cards were new and some were owned, and both summaries say so.
C37_Witness ==
    /\ ~IsNone(bresp) /\ Val(bresp).status = "ok"
    /\ ~IsNone(presp) /\ PPack.status = "ok"
    /\ BReq = PostedPack(PPack)
    /\ ~PPack.config.allow_duplicates_within_pack
    /\ Val(bresp).new_discoveries > 0 /\ Val(bresp).duplicate_increments > 0
    /\ Val(bresp).new_discoveries = PPack.summary.new_cards

(***************************************************************************)
(* ProgressSpec: the service, started on a binder file under a progression *)
(* order of sets that have a pool file with cards, is given packs for as   *)
(* long as a card of the order is missing.  Packs that bring nothing the   *)
(* binder lacks come in while the clock is below MaxTime; a pack with a    *)
(* card the binder holds no copy of can come in at any time.               *)
(***************************************************************************)
ProgressConfigs ==
    {[progression_order |-> <<"fossil", "base3">>,
      track_partial_milestones |-> TRUE,
      milestone_thresholds |-> DEFAULT_MILESTONE_THRESHOLDS,
      maintain_pack_history |-> FALSE],
     [progression_order |-> <<"base3", "fossil">>,
      track_partial_milestones |-> FALSE,
      milestone_thresholds |-> DEFAULT_MILESTONE_THRESHOLDS,
      maintain_pack_history |-> FALSE]}

\* Packs of one card up to MaxSlots cards of a set of the order.
ProgressPackResults ==
    UNION {{[set_id |-> Some(s), slots |-> Some(l)] :
               l \in UNION {[1..n -> {SlotOf(c, FALSE) : c \in cards_by_set[s]}] :
                               n \in 1..MaxSlots}} :
              s \in {"fossil", "base3"}}

\* The pack has a card of which the binder holds no copy.
BringsMissingCard(r) ==
    \E i \in DOMAIN Val(r.slots) :
        QuantityIn(state.cards, <<Val(r.set_id), Val(Val(r.slots)[i].card_id).text>>) = 0

ProgressInit ==
    /\ PackIdle
    /\ SaveIdle
    /\ ServerIdle
    /\ progression_config \in ProgressConfigs
    /\ state = EmptyState
    /\ owned_unique_by_set = EmptyMap
    /\ repo \in PersistedFiles
    /\ now = 0
    /\ breq = None
    /\ bresp = None

\* An add_cards_to_binder request arrives at the started service.
ProgressRequest ==
    /\ now > 0
    /\ IsNone(breq)
    /\ \E r \in ProgressPackResults :
          /\ now < MaxTime \/ BringsMissingCard(r)
          /\ breq' = Some(r)
    /\ bresp' = None
    /\ UNCHANGED <<progression_config, state, owned_unique_by_set, repo, now, pvars, svars, cvars>>

ProgressNext == Start \/ ProgressRequest \/ AddCards \/ BinderReturn

\* A request that has arrived is run: add_cards_to_binder reads the clock,
\* which no other step advances once the service is started.
RequestRuns == ~IsNone(breq) /\ IsNone(bresp) /\ now' = now + 1

\* The server starts, requests keep arriving, and the server runs and
\* answers each of them.
ProgressSpec ==
    /\ ProgressInit /\ [][ProgressNext]_vars
    /\ WF_vars(Start) /\ WF_vars(ProgressRequest) /\ WF_now(RequestRuns) /\ WF_vars(BinderReturn)

\* Every set of the progression order is unlocked and complete.
ProgressionFinished ==
    \A i \in DOMAIN Order :
        /\ Order[i] \in Range(state.unlocked_sets)
        /\ IsSetComplete(owned_unique_by_set, Order[i])

\* C38: under an order of sets that have a pool file with cards, and with
\* packs ingested for as long as a card is missing, from every state of the
\* constructed service a state is reached in which every set of the order
\* is unlocked and complete.
C38_ProgressionFinishes == Constructed ~> ProgressionFinished

====
